---- MODULE Spec2Model ----
(***************************************************************************)
(* AdvancedDriftCalibrationEngine                                          *)
(* (src/hardware/calibration/drift_calibration_system.py).                 *)
(*                                                                         *)
(* Numbers.  The engine computes in floating point; the drift detector of  *)
(* the model computes in exact arithmetic and its temperature compensator  *)
(* in binary64 (see there).  A sensor reading is an integer count of       *)
(* 1e-4 V (UnitsPerVolt counts to the volt).  A real number that is not a  *)
(* whole count is a fraction [num, den] with den > 0, never reduced, and a *)
(* comparison against a standard deviation (a square root) is decided on   *)
(* the squares.  Fractions are compared by FracLess, which uses only       *)
(* quotients and remainders and so never leaves the 32-bit integers.       *)
(***************************************************************************)
EXTENDS Integers, Sequences, FiniteSets, TLC

VARIABLES reference_standards, calibration_history, drift_models,
          last_calibration, pc, call, result, threads, frames

vars == <<reference_standards, calibration_history, drift_models,
          last_calibration, pc, call, result, threads, frames>>

engine == <<reference_standards, calibration_history, drift_models,
            last_calibration>>

\* The calls in flight on the shared engine and their stack frames.
workers == <<threads, frames>>

-----------------------------------------------------------------------------
(* Exact arithmetic helpers *)

Abs(a) == IF a < 0 THEN -a ELSE a

Min(a, b) == IF a < b THEN a ELSE b

Max(a, b) == IF a < b THEN b ELSE a

Rat(n, d) == [num |-> n, den |-> d]

\* a/b < c/d for a, c >= 0 and b, d > 0, by the continued-fraction expansion.
RECURSIVE FracLess(_, _, _, _)
FracLess(a, b, c, d) ==
    LET qa == a \div b
        qc == c \div d
        ra == a % b
        rc == c % d
    IN  IF qa # qc THEN qa < qc
        ELSE IF rc = 0 THEN FALSE
        ELSE IF ra = 0 THEN TRUE
        ELSE FracLess(d, rc, b, ra)

\* p < q for fractions of any sign (den > 0).
RatLess(p, q) ==
    IF p.num < 0
    THEN IF q.num >= 0 THEN TRUE
         ELSE FracLess(-q.num, q.den, -p.num, p.den)
    ELSE IF q.num < 0 THEN FALSE
         ELSE FracLess(p.num, p.den, q.num, q.den)

RatAbs(p) == Rat(Abs(p.num), p.den)

RECURSIVE GCD(_, _)
GCD(a, b) == IF b = 0 THEN a ELSE GCD(b, a % b)

\* The fraction n/d (d # 0) in lowest terms with a positive denominator.
RatNorm(n, d) ==
    LET g == GCD(Abs(n), Abs(d))
        s == IF d < 0 THEN -1 ELSE 1
    IN  Rat(s * (n \div g), s * (d \div g))

RatInt(n) == Rat(n, 1)

\* Products are formed after cross-reduction.
RatMul(p, q) ==
    LET a == RatNorm(p.num, q.den)
        b == RatNorm(q.num, p.den)
    IN  RatNorm(a.num * b.num, a.den * b.den)

RatAdd(p, q) ==
    LET g == GCD(Abs(p.den), Abs(q.den))
    IN  RatNorm(p.num * (q.den \div g) + q.num * (p.den \div g),
                p.den * (q.den \div g))

RatSub(p, q) == RatAdd(p, Rat(-q.num, q.den))

\* p / q for q # 0.
RatDiv(p, q) == RatMul(p, Rat(q.den, q.num))

\* a > k * sqrt(v) for integers a, k >= 0, v >= 0.
GtSqrt(a, k, v) ==
    IF a <= 0 THEN FALSE
    ELSE IF k = 0 \/ v = 0 THEN TRUE
    ELSE FracLess(v, a, a, k * k)

\* np.sum over a sequence of integers.
np_sum(s) ==
    LET F[i \in 0..Len(s)] == IF i = 0 THEN 0 ELSE F[i - 1] + s[i]
    IN  F[Len(s)]

\* k-th prefix of s (data[:k]).
Prefix(s, k) == [i \in 1..Min(k, Len(s)) |-> s[i]]

\* np.arange(n)
np_arange(n) == [i \in 1..n |-> i - 1]

\* elementwise product x * y
np_mul(x, y) == [i \in 1..Len(x) |-> x[i] * y[i]]

\* np.abs(np.diff(readings))
np_abs_diff(s) ==
    IF Len(s) < 2 THEN << >>
    ELSE [i \in 1..(Len(s) - 1) |-> Abs(s[i + 1] - s[i])]

-----------------------------------------------------------------------------
(* Python values *)

None == "<None>"

\* Python truthiness of an electrode_type argument (None and '' are falsy).
Truthy(v) == v # None /\ v # ""

KeyError == [kind |-> "raise", exc |-> "KeyError"]

UnitsPerVolt == 10000

-----------------------------------------------------------------------------
(* _load_reference_standards: every decimal is a fraction of its own unit. *)

LoadReferenceStandards ==
    [electrode_standards |->
        [e \in {"SS", "Cu", "Zn", "Ag", "Pt"} |->
            [reference_responses |->
                 CASE e = "SS" -> [pH4 |-> Rat(185, 100), pH7 |-> Rat(142, 100),
                                   pH10 |-> Rat(95, 100)]
                   [] e = "Cu" -> [pH4 |-> Rat(215, 100), pH7 |-> Rat(168, 100),
                                   pH10 |-> Rat(112, 100)]
                   [] e = "Zn" -> [pH4 |-> Rat(245, 100), pH7 |-> Rat(189, 100),
                                   pH10 |-> Rat(135, 100)]
                   [] e = "Ag" -> [pH4 |-> Rat(278, 100), pH7 |-> Rat(221, 100),
                                   pH10 |-> Rat(158, 100)]
                   [] e = "Pt" -> [pH4 |-> Rat(252, 100), pH7 |-> Rat(203, 100),
                                   pH10 |-> Rat(141, 100)],
             temp_coefficient |->
                 CASE e = "SS" -> Rat(-12, 10000)
                   [] e = "Cu" -> Rat(-18, 10000)
                   [] e = "Zn" -> Rat(-15, 10000)
                   [] e = "Ag" -> Rat(-9, 10000)
                   [] e = "Pt" -> Rat(-7, 10000),
             aging_rate |->
                 CASE e = "SS" -> Rat(5, 1000)
                   [] e = "Cu" -> Rat(8, 1000)
                   [] e = "Zn" -> Rat(6, 1000)
                   [] e = "Ag" -> Rat(4, 1000)
                   [] e = "Pt" -> Rat(3, 1000),
             noise_threshold |->
                 CASE e = "SS" -> Rat(20, 10000)
                   [] e = "Cu" -> Rat(30, 10000)
                   [] e = "Zn" -> Rat(25, 10000)
                   [] e = "Ag" -> Rat(20, 10000)
                   [] e = "Pt" -> Rat(15, 10000)]],
     environmental_standards |->
        [s \in {"pH", "conductivity"} |->
            IF s = "pH"
            THEN [slope_nominal |-> Rat(-5916, 100),
                  temp_coefficient |-> Rat(-198, 1000),
                  drift_threshold |-> Rat(1, 1)]
            ELSE [temp_coefficient |-> Rat(21, 1000),
                  cell_constant |-> Rat(1, 1),
                  drift_threshold |-> Rat(5, 100)]]]

-----------------------------------------------------------------------------
(* Statistical primitives *)

\* _calculate_linear_trend(x, y): least-squares slope, a fraction.
\* A zero denominator is the ZeroDivisionError outcome (numpy: nan/inf).
_calculate_linear_trend(x, y) ==
    LET n      == Len(x)
        sum_x  == np_sum(x)
        sum_y  == np_sum(y)
        sum_xy == np_sum(np_mul(x, y))
        sum_x2 == np_sum(np_mul(x, x))
    IN  IF n < 2 THEN Rat(0, 1)
        ELSE Rat(n * sum_xy - sum_x * sum_y, n * sum_x2 - sum_x * sum_x)

\* CUSUM constants (in standardised units).
cusum_k == Rat(1, 2)

cusum_h == 4

\* The floor of the CUSUM standard deviation, 1e-6 V, in reading counts
\* (UnitsPerVolt / 1000000, reduced).
cusum_std_floor == Rat(1, 100)

\* m^2 variance of the first m samples: m*sum(x^2) - sum(x)^2, so that
\* np.std(first) = sqrt(VarTimesN2(first)) / m.
VarTimesN2(s) == Len(s) * np_sum(np_mul(s, s)) - np_sum(s) * np_sum(s)

\* What the loop needs of the first min(10, n) samples: their number m, their
\* sum s (target = s/m), v = m^2 * variance (std_dev = sqrt(v)/m) and whether
\* std_dev is below the floor.  deviations[i] = d[i] / D with
\* d[i] = m*data[i] - s and D = m * max(std_dev, floor): D is sqrt(v) above
\* the floor and m * floor otherwise.
CusumScale(first) ==
    LET m == Len(first)
        v == VarTimesN2(first)
    IN  [m |-> m, s |-> np_sum(first), v |-> v,
         \* std < floor  <=>  sqrt(v)/m < fn/fd  <=>  v / (m*fn) < (m*fn) / fd^2
         floored |->
             IF v = 0 THEN TRUE
             ELSE FracLess(v, m * cusum_std_floor.num,
                           m * cusum_std_floor.num,
                           cusum_std_floor.den * cusum_std_floor.den)]

\* a > c * D, for an integer a and a fraction c >= 0.
CusumGt(a, c, scale) ==
    IF a <= 0 THEN FALSE
    ELSE IF c.num = 0 THEN TRUE
    ELSE IF scale.floored
         THEN \* a > c * m * floor
              FracLess(c.num * scale.m * cusum_std_floor.num,
                       c.den * cusum_std_floor.den, a, 1)
         ELSE \* a > (c.num/c.den) * sqrt(v)  <=>  (a*c.den)^2 > c.num^2 * v
              FracLess(scale.v, a * c.den, a * c.den, c.num * c.num)

\* One one-sided sum is kept as [a, b]: its value is (a - b*k*D)/D on the
\* positive side and (a + b*k*D)/D on the negative side; [0, 0] is zero.
CusumZero == [a |-> 0, b |-> 0]

\* CusumPosStep with min in place of max.
CusumPosStep_Min(prev, d, scale) ==
    LET a == prev.a + d
        b == prev.b + 1
    IN  IF CusumGt(a, Rat(b * cusum_k.num, cusum_k.den), scale)
        THEN CusumZero ELSE [a |-> a, b |-> b]

\* max(0, cusum_pos[i-1] + deviations[i] - k)
CusumPosStep(prev, d, scale) ==
    LET a == prev.a + d
        b == prev.b + 1
    IN  IF CusumGt(a, Rat(b * cusum_k.num, cusum_k.den), scale)
        THEN [a |-> a, b |-> b] ELSE CusumZero

\* min(0, cusum_neg[i-1] + deviations[i] + k)
CusumNegStep(prev, d, scale) ==
    LET a == prev.a + d
        b == prev.b + 1
    IN  IF CusumGt(-a, Rat(b * cusum_k.num, cusum_k.den), scale)
        THEN [a |-> a, b |-> b] ELSE CusumZero

\* The loop of _calculate_cusum: index 0 keeps the zero of np.zeros, the
\* recurrence runs over range(1, len(deviations)).
RECURSIVE CusumFrom(_, _, _, _, _)
CusumFrom(data, scale, positive, i, acc) ==
    IF i > Len(data) THEN acc
    ELSE LET d == scale.m * data[i] - scale.s
             next == IF i = 1 THEN CusumZero
                     ELSE IF positive THEN CusumPosStep(acc[i - 1], d, scale)
                     ELSE CusumNegStep(acc[i - 1], d, scale)
         IN  CusumFrom(data, scale, positive, i + 1, Append(acc, next))

CusumLoop(data, scale, positive) ==
    CusumFrom(data, scale, positive, 1, << >>)

\* cusum_pos[i] > h
CusumAboveH(c, scale) ==
    CusumGt(c.a, Rat(c.b * cusum_k.num + cusum_h * cusum_k.den, cusum_k.den),
            scale)

\* cusum_neg[i] < -h
CusumBelowH(c, scale) ==
    CusumGt(-c.a, Rat(c.b * cusum_k.num + cusum_h * cusum_k.den, cusum_k.den),
            scale)

\* _calculate_cusum(data) with target and std_dev left to their defaults.
_calculate_cusum(data) ==
    LET scale     == CusumScale(Prefix(data, 10))
        cusum_pos == CusumLoop(data, scale, TRUE)
        cusum_neg == CusumLoop(data, scale, FALSE)
        pos_alarm == \E i \in 1..Len(data) : CusumAboveH(cusum_pos[i], scale)
        neg_alarm == \E i \in 1..Len(data) : CusumBelowH(cusum_neg[i], scale)
    IN  [cusum_positive  |-> cusum_pos,
         cusum_negative  |-> cusum_neg,
         positive_alarm  |-> pos_alarm,
         negative_alarm  |-> neg_alarm,
         alarm_triggered |-> pos_alarm \/ neg_alarm]

\* Shewhart constants of the moving-range chart, in thousandths.
d3 == Rat(853, 1000)

d4 == Rat(1693, 1000)

\* _calculate_moving_range_stats with a lower control limit of 0.
_calculate_moving_range_stats_NoLower(moving_ranges) ==
    LET count == Len(moving_ranges)
        total == np_sum(moving_ranges)
        above(mr) == mr * count * d4.den > d4.num * total
        out_of_control_points ==
            {i \in 1..count : above(moving_ranges[i])}
    IN  [mean_moving_range      |-> Rat(total, count),
         out_of_control_points  |-> {i - 1 : i \in out_of_control_points},
         out_of_control         |-> Cardinality(out_of_control_points) > 0,
         percent_out_of_control |->
             Rat(Cardinality(out_of_control_points) * 100, count)]

\* _calculate_moving_range_stats(moving_ranges); mean_mr = total / count.
\* mr > d4*mean  <=>  mr * count * d4.den > d4.num * total.
_calculate_moving_range_stats(moving_ranges) ==
    LET count == Len(moving_ranges)
        total == np_sum(moving_ranges)
        above(mr) == mr * count * d4.den > d4.num * total
        below(mr) == mr * count * d3.den < Max(0, d3.num * total)
        out_of_control_points ==
            {i \in 1..count : above(moving_ranges[i]) \/ below(moving_ranges[i])}
    IN  [mean_moving_range      |-> Rat(total, count),
         out_of_control_points  |-> {i - 1 : i \in out_of_control_points},
         out_of_control         |-> Cardinality(out_of_control_points) > 0,
         percent_out_of_control |->
             Rat(Cardinality(out_of_control_points) * 100, count)]

\* The Rule 2 loop of _statistical_process_control: the run counters after
\* each point, stopping at the first point where a counter reaches 9.
Rule2Run == 9

Rule2Step(prev, above_center) ==
    LET consecutive_above == IF above_center THEN prev.above + 1 ELSE 0
        consecutive_below == IF above_center THEN 0 ELSE prev.below + 1
    IN  [above |-> consecutive_above,
         below |-> consecutive_below,
         violation |-> consecutive_above >= Rule2Run
                       \/ consecutive_below >= Rule2Run]

RECURSIVE Rule2From(_, _, _, _)
Rule2From(data, s, i, prev) ==
    IF i > Len(data) \/ prev.violation THEN prev
    ELSE Rule2From(data, s, i + 1,
                   Rule2Step(prev, Len(data) * data[i] > s))

Rule2Loop(data) ==
    Rule2From(data, np_sum(data), 1,
              [above |-> 0, below |-> 0, violation |-> FALSE])

\* _statistical_process_control(data): 3-sigma limits and Rule 2.  A point
\* exactly on a limit is inside it (in floating point the rounding of mean
\* and std decides such a tie).
_statistical_process_control(data) ==
    LET n == Len(data)
        s == np_sum(data)
        v == VarTimesN2(data)
        \* data[i] > mean + 3*std  <=>  n*data[i] - s > 3*sqrt(v)
        out_of_control ==
            {i \in 1..n : GtSqrt(n * data[i] - s, 3, v)
                          \/ GtSqrt(s - n * data[i], 3, v)}
        rule2_violation == Rule2Loop(data).violation
    IN  [mean                  |-> Rat(s, n),
         out_of_control_points |-> {i - 1 : i \in out_of_control},
         rule2_violation       |-> rule2_violation,
         out_of_control        |-> Cardinality(out_of_control) > 0
                                   \/ rule2_violation]

-----------------------------------------------------------------------------
(* Drift detector *)

\* Confidences are hundredths (0.4 is 40, 0.6 is 60).
ConfidenceScale == 100

\* _generate_drift_recommendation with the rate test ahead of the confidence
\* test.
_generate_drift_recommendation_RateFirst(drift_detected, confidence, drift_rate) ==
    IF ~drift_detected
    THEN [action |-> "monitor", urgency |-> "low", next_check_hours |-> 24]
    ELSE IF RatLess(Rat(1, 100), RatAbs(drift_rate))
    THEN [action |-> "immediate_calibration", urgency |-> "high",
          next_check_hours |-> 1]
    ELSE IF confidence < 60
    THEN [action |-> "increase_monitoring", urgency |-> "medium",
          next_check_hours |-> 4]
    ELSE [action |-> "schedule_calibration", urgency |-> "medium",
          next_check_hours |-> 8]

\* _generate_drift_recommendation(drift_detected, confidence, drift_rate)
_generate_drift_recommendation(drift_detected, confidence, drift_rate) ==
    IF ~drift_detected
    THEN [action |-> "monitor", urgency |-> "low", next_check_hours |-> 24]
    ELSE IF confidence < 60
    THEN [action |-> "increase_monitoring", urgency |-> "medium",
          next_check_hours |-> 4]
    ELSE IF RatLess(Rat(1, 100), RatAbs(drift_rate))
    THEN [action |-> "immediate_calibration", urgency |-> "high",
          next_check_hours |-> 1]
    ELSE [action |-> "schedule_calibration", urgency |-> "medium",
          next_check_hours |-> 8]

\* DriftThreshold with the electrode branch taken for every electrode call:
\* a call without an electrode_type uses the first table entry.
DriftThreshold_ElectrodeAlways(standards, sensor_type, electrode_type) ==
    IF sensor_type = "electrode"
    THEN IF ~Truthy(electrode_type)
         THEN Rat(standards.electrode_standards["SS"].aging_rate.num,
                  standards.electrode_standards["SS"].aging_rate.den * 30)
         ELSE IF electrode_type \in DOMAIN standards.electrode_standards
         THEN Rat(standards.electrode_standards[electrode_type].aging_rate.num,
                  standards.electrode_standards[electrode_type].aging_rate.den
                      * 30)
         ELSE KeyError
    ELSE IF sensor_type = "pH"
    THEN standards.environmental_standards["pH"].drift_threshold
    ELSE Rat(1, 100)

\* DriftThreshold with a defaulting lookup (dict.get) of the electrode type.
DriftThreshold_GetDefault(standards, sensor_type, electrode_type) ==
    IF sensor_type = "electrode" /\ Truthy(electrode_type)
       /\ electrode_type \in DOMAIN standards.electrode_standards
    THEN Rat(standards.electrode_standards[electrode_type].aging_rate.num,
             standards.electrode_standards[electrode_type].aging_rate.den * 30)
    ELSE IF sensor_type = "pH"
    THEN standards.environmental_standards["pH"].drift_threshold
    ELSE Rat(1, 100)

\* DriftThreshold with a table lookup of the sensor type in the last branch.
DriftThreshold_LookupSensor(standards, sensor_type, electrode_type) ==
    IF sensor_type = "electrode" /\ Truthy(electrode_type)
    THEN IF electrode_type \in DOMAIN standards.electrode_standards
         THEN Rat(standards.electrode_standards[electrode_type].aging_rate.num,
                  standards.electrode_standards[electrode_type].aging_rate.den
                      * 30)
         ELSE KeyError
    ELSE IF sensor_type = "pH"
    THEN standards.environmental_standards["pH"].drift_threshold
    ELSE IF sensor_type \in DOMAIN standards.environmental_standards
    THEN Rat(1, 100)
    ELSE KeyError

\* Lines 88-94 of detect_sensor_drift: the trend threshold, or the KeyError
\* of the table lookup.
DriftThreshold(standards, sensor_type, electrode_type) ==
    IF sensor_type = "electrode" /\ Truthy(electrode_type)
    THEN IF electrode_type \in DOMAIN standards.electrode_standards
         THEN LET aging_rate ==
                      standards.electrode_standards[electrode_type].aging_rate
              IN  Rat(aging_rate.num, aging_rate.den * 30)
         ELSE KeyError
    ELSE IF sensor_type = "pH"
    THEN standards.environmental_standards["pH"].drift_threshold
    ELSE Rat(1, 100)

\* DriftRate per minute (60) in place of per hour (3600).
DriftRate_PerMinute(slope, n_samples) ==
    IF n_samples > 1
    THEN Rat(slope.num * 3, slope.den * n_samples * (UnitsPerVolt \div 20))
    ELSE Rat(0, 1)

\* drift_rate = slope * 3600 / n_samples, in volts per hour.
DriftRate(slope, n_samples) ==
    IF n_samples > 1
    THEN Rat(slope.num * (3600 \div 400),
             slope.den * n_samples * (UnitsPerVolt \div 400))
    ELSE Rat(0, 1)

CountTrue(indicators) ==
    Cardinality({k \in DOMAIN indicators : indicators[k]})

\* InsufficientSamples off by one.
InsufficientSamples_Nine(n_samples) == n_samples < 9

\* The early return of line 71.
InsufficientSamples(n_samples) == n_samples < 10

\* 'linear_trend': abs(drift_rate) > drift_threshold
LinearTrendIndicator(drift_rate, drift_threshold) ==
    RatLess(drift_threshold, RatAbs(drift_rate))

\* sum(drift_indicators.values()) / len(drift_indicators), in hundredths.
DriftConfidence(drift_indicators) ==
    (CountTrue(drift_indicators) * ConfidenceScale)
        \div Cardinality(DOMAIN drift_indicators)

\* DriftDetected with the 0.6 of the recommendation in place of 0.4.
DriftDetected_AtSixty(drift_confidence) == drift_confidence >= 60

\* drift_detected with the threshold at 0.2: one indicator is enough.
DriftDetected_AtTwenty(drift_confidence) == drift_confidence >= 20

\* drift_confidence >= 0.4
DriftDetected(drift_confidence) == drift_confidence >= 40

\* detect_sensor_drift(sensor_readings, sensor_type, electrode_type)
detect_sensor_drift(standards, sensor_readings, sensor_type, electrode_type) ==
    LET readings  == sensor_readings
        n_samples == Len(readings)
    IN  IF InsufficientSamples(n_samples)
        THEN [kind |-> "return", drift_detected |-> FALSE,
              reason |-> "Insufficient data"]
        ELSE
        LET time_points   == np_arange(n_samples)
            slope         == _calculate_linear_trend(time_points, readings)
            cusum_stats   == _calculate_cusum(readings)
            moving_ranges == np_abs_diff(readings)
            mr_stats      == _calculate_moving_range_stats(moving_ranges)
            spc_stats     == _statistical_process_control(readings)
            drift_threshold ==
                DriftThreshold(standards, sensor_type, electrode_type)
        IN  IF drift_threshold = KeyError THEN KeyError
            ELSE
            LET drift_rate == DriftRate(slope, n_samples)
                drift_indicators ==
                    [linear_trend |->
                         LinearTrendIndicator(drift_rate, drift_threshold),
                     cusum_alarm  |-> cusum_stats.alarm_triggered,
                     range_alarm  |-> mr_stats.out_of_control,
                     spc_alarm    |-> spc_stats.out_of_control]
                drift_confidence == DriftConfidence(drift_indicators)
                drift_detected   == DriftDetected(drift_confidence)
            IN  [kind                  |-> "return",
                 drift_detected        |-> drift_detected,
                 drift_confidence      |-> drift_confidence,
                 drift_rate_per_hour   |-> drift_rate,
                 linear_slope          |-> slope,
                 cusum_statistics      |-> cusum_stats,
                 moving_range_stats    |-> mr_stats,
                 spc_statistics        |-> spc_stats,
                 individual_indicators |-> drift_indicators,
                 recommendation        |->
                     _generate_drift_recommendation(
                         drift_detected, drift_confidence, drift_rate)]

-----------------------------------------------------------------------------
(* Binary64 arithmetic.  Where the rounding of a floating-point operation  *)
(* decides the result, the model computes as the interpreter does: a float *)
(* is [neg, m, e] with value (-1)^neg * m * 2^e and 2^52 <= m < 2^53 (m    *)
(* empty for zero), m a natural number written as a sequence of limbs of   *)
(* 15 bits, least significant first.  Each operation is computed exactly   *)
(* and rounded to nearest, ties to even.  Subnormal numbers, infinities    *)
(* and the sign of zero are outside the inputs of the model.               *)

BigBase == 32768

BigZero == << >>

RECURSIVE BigTrim(_)
BigTrim(a) ==
    IF a = << >> THEN a
    ELSE IF a[Len(a)] = 0 THEN BigTrim(SubSeq(a, 1, Len(a) - 1))
    ELSE a

RECURSIVE BigFromNat(_)
BigFromNat(n) ==
    IF n = 0 THEN << >> ELSE <<n % BigBase>> \o BigFromNat(n \div BigBase)

BigLimb(a, i) == IF i <= Len(a) THEN a[i] ELSE 0

RECURSIVE BigAddFrom(_, _, _, _, _)
BigAddFrom(a, b, i, carry, acc) ==
    IF i > Len(a) /\ i > Len(b)
    THEN IF carry = 0 THEN acc ELSE Append(acc, carry)
    ELSE LET s == BigLimb(a, i) + BigLimb(b, i) + carry
         IN  BigAddFrom(a, b, i + 1, s \div BigBase, Append(acc, s % BigBase))

BigAdd(a, b) == BigAddFrom(a, b, 1, 0, << >>)

\* 2 * a + c for a bit c
BigTwice(a, c) == BigAddFrom(a, a, 1, c, << >>)

\* a - b for a >= b
RECURSIVE BigSubFrom(_, _, _, _, _)
BigSubFrom(a, b, i, borrow, acc) ==
    IF i > Len(a) THEN BigTrim(acc)
    ELSE LET d == a[i] - BigLimb(b, i) - borrow
         IN  BigSubFrom(a, b, i + 1, IF d < 0 THEN 1 ELSE 0,
                        Append(acc, IF d < 0 THEN d + BigBase ELSE d))

BigSub(a, b) == BigSubFrom(a, b, 1, 0, << >>)

RECURSIVE BigLessAt(_, _, _)
BigLessAt(a, b, i) ==
    IF i = 0 THEN FALSE
    ELSE IF a[i] # b[i] THEN a[i] < b[i]
    ELSE BigLessAt(a, b, i - 1)

BigLess(a, b) ==
    IF Len(a) # Len(b) THEN Len(a) < Len(b) ELSE BigLessAt(a, b, Len(a))

\* a * x for a limb x
RECURSIVE BigMulLimbFrom(_, _, _, _, _)
BigMulLimbFrom(a, x, i, carry, acc) ==
    IF i > Len(a) THEN IF carry = 0 THEN acc ELSE Append(acc, carry)
    ELSE LET p == a[i] * x + carry
         IN  BigMulLimbFrom(a, x, i + 1, p \div BigBase,
                            Append(acc, p % BigBase))

RECURSIVE BigMulFrom(_, _, _, _)
BigMulFrom(a, b, i, acc) ==
    IF i = 0 THEN BigTrim(acc)
    ELSE BigMulFrom(a, b, i - 1,
                    BigAdd(BigMulLimbFrom(b, a[i], 1, 0, << >>),
                           <<0>> \o acc))

BigMul(a, b) == BigMulFrom(a, b, Len(a), << >>)

\* [q, r] with a = p * q + r, for a limb p > 0
RECURSIVE BigDivLimbFrom(_, _, _, _, _)
BigDivLimbFrom(a, p, i, rem, acc) ==
    IF i = 0 THEN [q |-> BigTrim(acc), r |-> rem]
    ELSE LET v == rem * BigBase + a[i]
         IN  BigDivLimbFrom(a, p, i - 1, v % p, <<v \div p>> \o acc)

\* [q, r] with a = 2 * q + r
BigHalf(a) == BigDivLimbFrom(a, 2, Len(a), 0, << >>)

LimbBits == 15

\* a * 2^k
BigShiftLeft(a, k) ==
    BigTrim([i \in 1..(k \div LimbBits) |-> 0]
            \o BigMulLimbFrom(a, 2^(k % LimbBits), 1, 0, << >>))

\* [q, sticky]: q the integer part of a / 2^k, sticky whether the division
\* left a remainder
BigShiftRight(a, k) ==
    LET w == Min(k \div LimbBits, Len(a))
        d == BigDivLimbFrom(SubSeq(a, w + 1, Len(a)), 2^(k % LimbBits),
                            Len(a) - w, 0, << >>)
    IN  [q |-> d.q,
         sticky |-> d.r # 0 \/ \E i \in 1..w : a[i] # 0]

RECURSIVE BitLen(_)
BitLen(n) == IF n = 0 THEN 0 ELSE 1 + BitLen(n \div 2)

\* the number of binary digits of a
BigBitLen(a) ==
    IF a = BigZero THEN 0
    ELSE LimbBits * (Len(a) - 1) + BitLen(a[Len(a)])

\* one more binary digit of the quotient by d, from st = [q, r] with r < d
BigQuotStep(st, d) ==
    LET r2 == BigTwice(st.r, 0)
    IN  IF BigLess(r2, d)
        THEN [q |-> BigTwice(st.q, 0), r |-> r2]
        ELSE [q |-> BigTwice(st.q, 1), r |-> BigSub(r2, d)]

\* st after 4 * k more binary digits of the quotient by d
RECURSIVE BigQuotLoop(_, _, _)
BigQuotLoop(st, d, k) ==
    IF k = 0 \/ ~BigLess(st.r, d) THEN st
    ELSE BigQuotLoop(
             BigQuotStep(BigQuotStep(BigQuotStep(BigQuotStep(st, d), d), d),
                         d),
             d, k - 1)

MantissaBits == 53

\* 2^52 and 2^53
Two52 == <<0, 0, 0, 128>>

Two53 == <<0, 0, 0, 256>>

FloatZero == [neg |-> FALSE, m |-> BigZero, e |-> 0]

\* The float nearest to (-1)^neg * n * 2^e, or to a value above it by less
\* than one unit of n when sticky is set (n then has at least 55 digits).
FloatRound(neg, n, e, sticky) ==
    LET len == BigBitLen(n)
    IN  IF n = BigZero THEN FloatZero
        ELSE IF len <= MantissaBits
        THEN [neg |-> neg, m |-> BigShiftLeft(n, MantissaBits - len),
              e |-> e - (MantissaBits - len)]
        ELSE LET drop == len - MantissaBits
                 s == BigShiftRight(n, drop - 1)
                 h == BigHalf(s.q)
                 up == BigAdd(h.q, <<1>>)
             IN  IF h.r = 1 /\ (sticky \/ s.sticky \/ h.q[1] % 2 = 1)
                 THEN IF up = Two53
                      THEN [neg |-> neg, m |-> Two52, e |-> e + drop + 1]
                      ELSE [neg |-> neg, m |-> up, e |-> e + drop]
                 ELSE [neg |-> neg, m |-> h.q, e |-> e + drop]

\* The quotient of two floats is computed to 4 * QuotientSteps digits.
QuotientSteps == 14

\* float(n) for an integer n
FloatInt(n) == FloatRound(n < 0, BigFromNat(Abs(n)), 0, FALSE)

FloatNeg(x) == IF x.m = BigZero THEN x ELSE [x EXCEPT !.neg = ~x.neg]

\* x * y
FloatMul(x, y) ==
    IF x.m = BigZero \/ y.m = BigZero THEN FloatZero
    ELSE FloatRound(x.neg # y.neg, BigMul(x.m, y.m), x.e + y.e, FALSE)

\* x / y for y # 0
FloatDiv(x, y) ==
    IF x.m = BigZero THEN FloatZero
    ELSE LET ge == ~BigLess(x.m, y.m)
             q  == BigQuotLoop([q |-> IF ge THEN <<1>> ELSE BigZero,
                                r |-> IF ge THEN BigSub(x.m, y.m) ELSE x.m],
                               y.m, QuotientSteps)
         IN  FloatRound(x.neg # y.neg, q.q, x.e - y.e - 4 * QuotientSteps,
                        q.r # BigZero)

\* float(n / d) for integers n and d > 0
FloatOf(n, d) == FloatDiv(FloatInt(n), FloatInt(d))

\* x + y
FloatAdd(x, y) ==
    IF x.m = BigZero THEN y
    ELSE IF y.m = BigZero THEN x
    ELSE LET e  == Min(x.e, y.e)
             xm == BigShiftLeft(x.m, x.e - e)
             ym == BigShiftLeft(y.m, y.e - e)
         IN  IF x.neg = y.neg
             THEN FloatRound(x.neg, BigAdd(xm, ym), e, FALSE)
             ELSE IF BigLess(xm, ym)
             THEN FloatRound(y.neg, BigSub(ym, xm), e, FALSE)
             ELSE FloatRound(x.neg, BigSub(xm, ym), e, FALSE)

\* x - y
FloatSub(x, y) == FloatAdd(x, FloatNeg(y))

-----------------------------------------------------------------------------
(* Temperature compensator, in binary64.  The call gives reading as a      *)
(* count of 1e-4 V and temperature as a count of 0.1 degrees C; the floats *)
(* the engine receives are the nearest to these decimals.                  *)

TempUnitsPerDegree == 10

ZeroDivisionError == [kind |-> "raise", exc |-> "ZeroDivisionError"]

Returned(v) == [kind |-> "return", value |-> v]

\* The float of a decimal constant written as a fraction.
FloatRat(r) == FloatOf(r.num, r.den)

\* The float arguments of a call.
FloatReading(reading) == FloatOf(reading, UnitsPerVolt)

FloatTemperature(temperature) == FloatOf(temperature, TempUnitsPerDegree)

\* apply_temperature_compensation(reading, temperature, sensor_type,
\*                                electrode_type)
apply_temperature_compensation(standards, reading, temperature, sensor_type, electrode_type) ==
    LET reference_temp == FloatInt(25)
        temp_diff == FloatSub(FloatTemperature(temperature), reference_temp)
    IN  IF sensor_type = "electrode" /\ Truthy(electrode_type)
        THEN IF electrode_type \in DOMAIN standards.electrode_standards
             THEN LET temp_coeff ==
                          FloatRat(standards.electrode_standards[electrode_type]
                                       .temp_coefficient)
                      compensation == FloatMul(temp_coeff, temp_diff)
                  IN  Returned(FloatSub(FloatReading(reading), compensation))
             ELSE KeyError
        ELSE IF sensor_type = "pH"
        THEN LET nernst_slope_25 == FloatOf(-5916, 100)
                 nernst_slope_t ==
                     FloatDiv(FloatMul(nernst_slope_25,
                                       FloatAdd(FloatTemperature(temperature),
                                                FloatOf(27315, 100))),
                              FloatOf(29815, 100))
                 ph_at_25 ==
                     FloatDiv(FloatSub(FloatReading(reading), FloatInt(2)),
                              FloatDiv(nernst_slope_25, FloatInt(1000)))
                 compensated_voltage ==
                     FloatAdd(FloatInt(2),
                              FloatMul(ph_at_25,
                                       FloatDiv(nernst_slope_t,
                                                FloatInt(1000))))
             IN  Returned(compensated_voltage)
        ELSE IF sensor_type = "conductivity"
        THEN LET temp_coeff ==
                     FloatRat(standards.environmental_standards["conductivity"]
                                  .temp_coefficient)
                 compensation_factor ==
                     FloatAdd(FloatInt(1), FloatMul(temp_coeff, temp_diff))
             IN  IF compensation_factor = FloatZero THEN ZeroDivisionError
                 ELSE Returned(FloatDiv(FloatReading(reading),
                                        compensation_factor))
        ELSE LET compensation == FloatMul(FloatOf(-10, 10000), temp_diff)
             IN  Returned(FloatSub(FloatReading(reading), compensation))

-----------------------------------------------------------------------------
(* The least-squares slope in binary64.  The detector above computes the   *)
(* slope exactly; here it is computed as the interpreter computes it, each *)
(* sum accumulated from the left (np.sum over fewer than 8 values) and     *)
(* each operation rounded.  y is a sequence of counts of 1e-4 V.           *)

RECURSIVE FloatSumFrom(_, _, _)
FloatSumFrom(s, i, acc) ==
    IF i > Len(s) THEN acc
    ELSE FloatSumFrom(s, i + 1, FloatAdd(acc, s[i]))

\* np.sum over a sequence of floats
FloatSum(s) == FloatSumFrom(s, 1, FloatZero)

\* TrendTooShort with the bound 3.
TrendTooShort_Three(n) == n < 3

\* n < 2: the slope is 0 and nothing is divided.
TrendTooShort(n) == n < 2

\* _calculate_linear_trend(x, y) on floats
FloatLinearTrend(x, y) ==
    LET n      == Len(x)
        values == [i \in 1..Len(y) |-> FloatReading(y[i])]
        sum_x  == np_sum(x)
        sum_y  == FloatSum(values)
        sum_xy == FloatSum([i \in 1..n |->
                               FloatMul(FloatInt(x[i]), values[i])])
        sum_x2 == np_sum(np_mul(x, x))
    IN  IF TrendTooShort(n) THEN Returned(FloatZero)
        ELSE Returned(
                 FloatDiv(FloatSub(FloatMul(FloatInt(n), sum_xy),
                                   FloatMul(FloatInt(sum_x), sum_y)),
                          FloatInt(n * sum_x2 - sum_x * sum_x)))

-----------------------------------------------------------------------------
(* Kalman signal filter.  The filter runs in fixed point: a measurement   *)
(* and an estimate are counts of 1e-7 V, a covariance or a noise is a      *)
(* count of 1e-7, a gain is a count of 1e-6; every product and quotient is *)
(* rounded to the nearest count, as a floating-point operation is rounded  *)
(* to the nearest representable value.                                     *)

CovScale == 10000000

GainScale == 1000000

\* [q, r] with a * b = q * c + r and 0 <= r < c, for a, b >= 0 and c > 0,
\* by doubling, so that no intermediate value leaves the 32-bit integers.
RECURSIVE MulDivMod(_, _, _)
MulDivMod(a, b, c) ==
    IF b = 0 THEN [q |-> 0, r |-> 0]
    ELSE LET h  == MulDivMod(a, b \div 2, c)
             q2 == 2 * h.q + (IF b % 2 = 1 THEN a \div c ELSE 0)
             r2 == 2 * h.r + (IF b % 2 = 1 THEN a % c ELSE 0)
         IN  [q |-> q2 + (r2 \div c), r |-> r2 % c]

\* a * b / c rounded to the nearest integer (halves away from zero).
MulDivRound(a, b, c) ==
    LET m == MulDivMod(Abs(a), Abs(b), c)
        q == m.q + (IF 2 * m.r >= c THEN 1 ELSE 0)
    IN  IF (a < 0) # (b < 0) THEN -q ELSE q

\* KalmanNoise without measurement noise.
KalmanNoise_NoMeasurementNoise(sensor_type) ==
    IF sensor_type = "electrode"
    THEN [process_noise |-> CovScale \div 1000000, measurement_noise |-> 0]
    ELSE [process_noise |-> CovScale \div 100000, measurement_noise |-> 0]

\* The noise parameters selected by sensor_type (lines 302-310).
KalmanNoise(sensor_type) ==
    IF sensor_type = "electrode"
    THEN [process_noise |-> CovScale \div 1000000,
          measurement_noise |-> CovScale \div 10000]
    ELSE IF sensor_type = "pH"
    THEN [process_noise |-> CovScale \div 100000,
          measurement_noise |-> CovScale \div 1000]
    ELSE [process_noise |-> CovScale \div 100000,
          measurement_noise |-> CovScale \div 1000]

\* One pass of the loop body (lines 317-328) from state s on observation z.
KalmanStep(s, z, noise) ==
    LET x_pred      == s.x_est
        p_pred      == s.p_est + noise.process_noise
        innovation  == z - x_pred
        kalman_gain ==
            MulDivRound(p_pred, GainScale, p_pred + noise.measurement_noise)
        x_est       == x_pred + MulDivRound(kalman_gain, innovation, GainScale)
        p_est       == MulDivRound(GainScale - kalman_gain, p_pred, GainScale)
    IN  [x_est |-> x_est, p_est |-> p_est, x_pred |-> x_pred,
         p_pred |-> p_pred, kalman_gain |-> kalman_gain]

\* The states of the filter after each iteration of `for i in range(n)`,
\* from x_est = measurements[0], p_est = 1.0.
KalmanLoop(measurements, noise) ==
    LET n == Len(measurements)
        F[i \in 0..n] ==
            IF i = 0
            THEN [x_est |-> measurements[1], p_est |-> CovScale,
                  x_pred |-> measurements[1], p_pred |-> CovScale,
                  kalman_gain |-> 0]
            ELSE KalmanStep(F[i - 1], measurements[i], noise)
    IN  [i \in 1..n |-> F[i]]

\* KalmanTooShort with the bound 2.
KalmanTooShort_Two(n) == n < 2

\* n < 3: the series is returned as it is.
KalmanTooShort(n) == n < 3

\* kalman_filter_enhancement(measurements, sensor_type)
kalman_filter_enhancement(measurements, sensor_type) ==
    LET n == Len(measurements)
    IN  IF KalmanTooShort(n)
        THEN [kind |-> "return", value |-> measurements, steps |-> << >>]
        ELSE LET steps == KalmanLoop(measurements, KalmanNoise(sensor_type))
             IN  [kind  |-> "return",
                  value |-> [i \in 1..n |-> steps[i].x_est],
                  steps |-> steps]

-----------------------------------------------------------------------------
(* Cross validator.  Expected and actual electrode values are integer      *)
(* counts.  A ratio or a square root that is not a whole number is taken   *)
(* to the 1e-3 below it (ScoreScale counts to the unit), so a score is a   *)
(* count of 1e-3 points; the mean relative error is an exact fraction.  A  *)
(* division by zero gives the numpy values inf and nan.  A dict argument   *)
(* is Dict(f) for the function f from its keys, or NoDict for None.        *)

ScoreScale == 1000

NaN == [kind |-> "nan"]

Inf == [kind |-> "inf"]

Num(v) == [kind |-> "num", v |-> v]

IsNumber(x) == x.kind = "num"

NoDict == [type |-> "NoneType"]

Dict(f) == [type |-> "dict", items |-> f]

EmptyDict == Dict(<< >>)

\* `not d` for a dict or None
DictFalsy(d) == d.type = "NoneType" \/ DOMAIN d.items = {}

\* d.get(key, default)
DictGet(d, key, default) ==
    IF key \in DOMAIN d.items THEN d.items[key] ELSE default

electrodes == <<"SS", "Cu", "Zn", "Ag", "Pt">>

\* f'{electrode}_voltage'
VoltageKey(electrode) ==
    CASE electrode = "SS" -> "SS_voltage"
      [] electrode = "Cu" -> "Cu_voltage"
      [] electrode = "Zn" -> "Zn_voltage"
      [] electrode = "Ag" -> "Ag_voltage"
      [] electrode = "Pt" -> "Pt_voltage"

\* The largest root r of lo..hi with (r / ScoreScale)^2 <= num / den.
RECURSIVE SqrtSearch(_, _, _, _)
SqrtSearch(num, den, lo, hi) ==
    IF lo >= hi THEN lo
    ELSE LET mid == (lo + hi + 1) \div 2
         IN  IF FracLess(num, den, mid * mid, ScoreScale * ScoreScale)
             THEN SqrtSearch(num, den, lo, mid - 1)
             ELSE SqrtSearch(num, den, mid, hi)

\* Roots are sought up to 46 units.
SqrtMax == 46000

\* np.sqrt(num / den) for num >= 0 and den > 0
FixedSqrt(num, den) == SqrtSearch(num, den, 0, SqrtMax)

np_max(s) ==
    LET F[i \in 1..Len(s)] == IF i = 1 THEN s[1] ELSE Max(F[i - 1], s[i])
    IN  F[Len(s)]

np_min(s) ==
    LET F[i \in 1..Len(s)] == IF i = 1 THEN s[1] ELSE Min(F[i - 1], s[i])
    IN  F[Len(s)]

\* np.corrcoef(x, y)[0, 1]
np_corrcoef(x, y) ==
    LET n   == Len(x)
        sxy == n * np_sum(np_mul(x, y)) - np_sum(x) * np_sum(y)
        sxx == n * np_sum(np_mul(x, x)) - np_sum(x) * np_sum(x)
        syy == n * np_sum(np_mul(y, y)) - np_sum(y) * np_sum(y)
    IN  IF sxx = 0 \/ syy = 0 THEN NaN
        ELSE IF sxy < 0 THEN Num(-FixedSqrt(sxy * sxy, sxx * syy))
        ELSE Num(FixedSqrt(sxy * sxy, sxx * syy))

\* np.sqrt(np.mean((expected - actual)**2)) / (max(expected) - min(expected))
NormalizedRmse(expected_values, actual_values) ==
    LET n      == Len(expected_values)
        diff   == [i \in 1..n |-> expected_values[i] - actual_values[i]]
        sum_sq == np_sum(np_mul(diff, diff))
        range  == np_max(expected_values) - np_min(expected_values)
    IN  IF range = 0 THEN IF sum_sq = 0 THEN NaN ELSE Inf
        ELSE Num(FixedSqrt(sum_sq, n * range * range))

\* np.abs((actual - expected) / expected) * 100, elementwise
RelativeErrors(expected_values, actual_values) ==
    [i \in 1..Len(expected_values) |->
        IF expected_values[i] = 0
        THEN IF actual_values[i] = 0 THEN NaN ELSE Inf
        ELSE Num(RatNorm(100 * Abs(actual_values[i] - expected_values[i]),
                         Abs(expected_values[i])))]

RECURSIVE RatSum(_, _, _)
RatSum(s, i, acc) ==
    IF i > Len(s) THEN acc ELSE RatSum(s, i + 1, RatAdd(acc, s[i].v))

\* np.mean(relative_errors)
MeanRelativeError(relative_errors) ==
    IF \E i \in DOMAIN relative_errors : relative_errors[i] = NaN THEN NaN
    ELSE IF \E i \in DOMAIN relative_errors : relative_errors[i] = Inf THEN Inf
    ELSE Num(RatDiv(RatSum(relative_errors, 1, RatInt(0)),
                    RatInt(Len(relative_errors))))

CorrelationWeight == 30

RmseWeight == 30

ErrorWeight == 40

\* correlation_score without the max(0, .).
correlation_score_Unclamped(correlation) ==
    IF ~IsNumber(correlation) THEN 0
    ELSE correlation.v * CorrelationWeight

\* max(0, correlation) * 30; max(0, nan) is 0
correlation_score(correlation) ==
    IF ~IsNumber(correlation) THEN 0
    ELSE Max(0, correlation.v) * CorrelationWeight

\* rmse_score with normalized_rmse in place of 1 - normalized_rmse.
rmse_score_Inverted(normalized_rmse) ==
    IF ~IsNumber(normalized_rmse) THEN 0
    ELSE Max(0, normalized_rmse.v) * RmseWeight

\* max(0, 1 - normalized_rmse) * 30; max(0, nan) and max(0, -inf) are 0
rmse_score(normalized_rmse) ==
    IF ~IsNumber(normalized_rmse) THEN 0
    ELSE Max(0, ScoreScale - normalized_rmse.v) * RmseWeight

\* max(0, 1 - mean_relative_error/100) * 40
error_score(mean_relative_error) ==
    IF ~IsNumber(mean_relative_error) THEN 0
    ELSE LET hundred == 100 * mean_relative_error.v.den
             left    == hundred - mean_relative_error.v.num
         IN  IF left <= 0 THEN 0
             ELSE MulDivMod(left, ScoreScale, hundred).q * ErrorWeight

\* ValidationStatus with the good_match bound at 50.
ValidationStatus_GoodAtFifty(composite_score) ==
    IF composite_score >= 80 * ScoreScale THEN "excellent_match"
    ELSE IF composite_score >= 50 * ScoreScale THEN "good_match"
    ELSE IF composite_score >= 40 * ScoreScale THEN "acceptable_match"
    ELSE IF composite_score >= 20 * ScoreScale THEN "poor_match"
    ELSE "no_match"

\* The status of a composite score (lines 366-376).
ValidationStatus(composite_score) ==
    IF composite_score >= 80 * ScoreScale THEN "excellent_match"
    ELSE IF composite_score >= 60 * ScoreScale THEN "good_match"
    ELSE IF composite_score >= 40 * ScoreScale THEN "acceptable_match"
    ELSE IF composite_score >= 20 * ScoreScale THEN "poor_match"
    ELSE "no_match"

\* The electrodes compared: those of the reference profile (lines 341-344).
ComparedElectrodes(reference_profile) ==
    LET response == DictGet(reference_profile, "electrode_response", << >>)
        InResponse(electrode) == electrode \in DOMAIN response
    IN  SelectSeq(electrodes, InResponse)

\* The values appended by the loop of lines 341-344: a reading missing from
\* current_readings counts as 0.
ExpectedValues(reference_profile) ==
    LET compared == ComparedElectrodes(reference_profile)
    IN  [i \in 1..Len(compared) |->
            reference_profile.items["electrode_response"][compared[i]]]

ActualValues(current_readings, reference_profile) ==
    LET compared == ComparedElectrodes(reference_profile)
    IN  [i \in 1..Len(compared) |->
            DictGet(current_readings, VoltageKey(compared[i]), 0)]

\* len(expected_values) < 3
InsufficientReference(expected_values) == Len(expected_values) < 3

\* cross_validation_check(current_readings, reference_profile, herb_name)
cross_validation_check(current_readings, reference_profile, herb_name) ==
    IF DictFalsy(reference_profile) \/ DictFalsy(current_readings)
    THEN [kind |-> "return", validation_score |-> 0,
          status |-> "insufficient_data"]
    ELSE LET expected_values == ExpectedValues(reference_profile)
             actual_values ==
                 ActualValues(current_readings, reference_profile)
         IN  IF InsufficientReference(expected_values)
             THEN [kind |-> "return", validation_score |-> 0,
                   status |-> "insufficient_reference_data"]
             ELSE LET correlation ==
                          np_corrcoef(expected_values, actual_values)
                      normalized_rmse ==
                          NormalizedRmse(expected_values, actual_values)
                      relative_errors ==
                          RelativeErrors(expected_values, actual_values)
                      mean_relative_error ==
                          MeanRelativeError(relative_errors)
                      composite_score ==
                          correlation_score(correlation)
                              + rmse_score(normalized_rmse)
                              + error_score(mean_relative_error)
                  IN  [kind |-> "return",
                       validation_score |-> composite_score,
                       status |-> ValidationStatus(composite_score),
                       herb_name |-> herb_name,
                       metrics |->
                           [correlation |-> correlation,
                            normalized_rmse |-> normalized_rmse,
                            mean_relative_error |-> mean_relative_error],
                       electrode_comparison |->
                           [expected |-> expected_values,
                            actual |-> actual_values,
                            relative_errors |-> relative_errors]]

-----------------------------------------------------------------------------
(* Maintenance forecaster.  A drift rate or a noise level is a natural     *)
(* number of counts of 1e-12, written as a sequence of limbs as the        *)
(* significand of a float is, so that the thresholds (0.05, 0.01) and the  *)
(* floor of the trend (1e-10) are whole counts and the arithmetic is       *)
(* exact.  A trend is [neg, num, den], the fraction (-1)^neg * num / den   *)
(* of counts per entry; a number of days is a fraction [num, den].         *)

\* a * x for a limb x, without leading zero limbs
BigScale(a, x) == BigTrim(BigMulLimbFrom(a, x, 1, 0, << >>))

RECURSIVE BigPow10(_)
BigPow10(k) == IF k = 0 THEN <<1>> ELSE BigScale(BigPow10(k - 1), 10)

\* The decimal digits of a count: one count is 1e-12.
ValueDigits == 12

\* drift_threshold = 0.05 and noise_threshold = 0.01 (lines 413-414)
drift_threshold == BigScale(BigPow10(ValueDigits - 2), 5)

noise_threshold == BigPow10(ValueDigits - 2)

\* 1e-10, the floor of a trend (lines 419 and 423), in counts per entry
TrendFloor == 10 ^ (ValueDigits - 10)

NoList == [type |-> "NoneType"]

List(s) == [type |-> "list", items |-> s]

\* `not sensor_history or len(sensor_history) < 20` with the bound 19.
InsufficientHistory_Nineteen(sensor_history) ==
    \/ sensor_history.type = "NoneType"
    \/ Len(sensor_history.items) < 19

\* not sensor_history or len(sensor_history) < 20
InsufficientHistory(sensor_history) ==
    \/ sensor_history.type = "NoneType"
    \/ Len(sensor_history.items) < 20

\* entry.get(key, 0)
EntryGet(entry, key) == IF key \in DOMAIN entry THEN entry[key] ELSE BigZero

RECURSIVE BigSumFrom(_, _, _)
BigSumFrom(s, i, acc) ==
    IF i > Len(s) THEN acc ELSE BigSumFrom(s, i + 1, BigAdd(acc, s[i]))

\* np.sum over a sequence of counts
BigSum(s) == BigSumFrom(s, 1, BigZero)

\* _calculate_linear_trend(np.array(time_indices), y) for y in counts
LinearTrendOfCounts(y) ==
    LET n      == Len(y)
        x      == np_arange(n)
        sum_x  == np_sum(x)
        sum_y  == BigSum(y)
        sum_xy == BigSum([i \in 1..n |-> BigScale(y[i], x[i])])
        sum_x2 == np_sum(np_mul(x, x))
        left   == BigScale(sum_xy, n)
        right  == BigScale(sum_y, sum_x)
    IN  IF n < 2 THEN [neg |-> FALSE, num |-> BigZero, den |-> 1]
        ELSE IF BigLess(left, right)
        THEN [neg |-> TRUE, num |-> BigSub(right, left),
              den |-> n * sum_x2 - sum_x * sum_x]
        ELSE [neg |-> FALSE, num |-> BigSub(left, right),
              den |-> n * sum_x2 - sum_x * sum_x]

\* TrendPositive as trend >= 0.
TrendPositive_OrZero(trend) == ~trend.neg

\* trend > 0
TrendPositive(trend) == ~trend.neg /\ trend.num # BigZero

\* a < b for fractions of naturals
DaysLess(a, b) == BigLess(BigMul(a.num, b.den), BigMul(b.num, a.den))

DaysOf(n) == [num |-> BigFromNat(n), den |-> <<1>>]

\* max(1, days)
AtLeastOneDay(days) == IF DaysLess(days, DaysOf(1)) THEN DaysOf(1) ELSE days

\* DaysToLimit dividing by the trend itself.
DaysToLimit_NoFloor(trend, current, threshold) ==
    [num |-> BigScale(BigSub(threshold, current), trend.den),
     den |-> trend.num]

\* (threshold - current) / max(trend, 1e-10), for trend > 0 and
\* current < threshold
DaysToLimit(trend, current, threshold) ==
    LET floor == BigFromNat(TrendFloor * trend.den)
    IN  [num |-> BigScale(BigSub(threshold, current), trend.den),
         den |-> IF BigLess(trend.num, floor) THEN floor ELSE trend.num]

\* The maintenance_predictions dict (lines 416-424).
MaintenancePredictions(drift_trend, current_drift, noise_trend, current_noise) ==
    LET drift == TrendPositive(drift_trend)
                     /\ BigLess(current_drift, drift_threshold)
        noise == TrendPositive(noise_trend)
                     /\ BigLess(current_noise, noise_threshold)
    IN  [k \in (IF drift THEN {"drift_maintenance"} ELSE {})
                   \cup (IF noise THEN {"noise_maintenance"} ELSE {}) |->
            IF k = "drift_maintenance"
            THEN AtLeastOneDay(DaysToLimit(drift_trend, current_drift,
                                           drift_threshold))
            ELSE AtLeastOneDay(DaysToLimit(noise_trend, current_noise,
                                           noise_threshold))]

DefaultMaintenanceDays == 90

\* min(maintenance_predictions.values()), or 90 (lines 427-430)
NextMaintenanceDays(maintenance_predictions) ==
    IF DOMAIN maintenance_predictions = {} THEN DaysOf(DefaultMaintenanceDays)
    ELSE CHOOSE d \in {maintenance_predictions[k] :
                           k \in DOMAIN maintenance_predictions} :
             \A k \in DOMAIN maintenance_predictions :
                 ~DaysLess(maintenance_predictions[k], d)

\* The largest integer of lo..hi that is at most days.
RECURSIVE FloorSearch(_, _, _)
FloorSearch(days, lo, hi) ==
    IF lo >= hi THEN lo
    ELSE LET mid == (lo + hi + 1) \div 2
         IN  IF DaysLess(days, DaysOf(mid))
             THEN FloorSearch(days, lo, mid - 1)
             ELSE FloorSearch(days, mid, hi)

\* No estimate exceeds 0.05 / 1e-10 days.
MaxDays == 1000000000

\* int(next_maintenance_days)
IntOfDays(days) == FloorSearch(days, 0, MaxDays)

\* Urgency with the bound of 'high' at 31.
Urgency_HighBelowThirtyOne(next_maintenance_days) ==
    IF DaysLess(next_maintenance_days, DaysOf(7)) THEN "critical"
    ELSE IF DaysLess(next_maintenance_days, DaysOf(31)) THEN "high"
    ELSE "medium"

\* The urgency of the number of days before it is truncated (lines 432-440).
Urgency(next_maintenance_days) ==
    IF DaysLess(next_maintenance_days, DaysOf(7)) THEN "critical"
    ELSE IF DaysLess(next_maintenance_days, DaysOf(30)) THEN "high"
    ELSE "medium"

MaintenanceMessage(next_maintenance_days) ==
    IF DaysLess(next_maintenance_days, DaysOf(7))
    THEN <<"Immediate maintenance required within 1 week">>
    ELSE IF DaysLess(next_maintenance_days, DaysOf(30))
    THEN <<"Maintenance recommended within", IntOfDays(next_maintenance_days),
           "days">>
    ELSE <<"Next maintenance due in", IntOfDays(next_maintenance_days),
           "days">>

\* predictive_maintenance_analysis(sensor_history, usage_data)
predictive_maintenance_analysis(sensor_history, usage_data) ==
    IF InsufficientHistory(sensor_history)
    THEN [kind |-> "return", status |-> "insufficient_data"]
    ELSE LET history == sensor_history.items
             n == Len(history)
         IN  IF \E i \in 1..n : "timestamp" \notin DOMAIN history[i]
             THEN KeyError
             ELSE LET drift_rates ==
                          [i \in 1..n |-> EntryGet(history[i], "drift_rate")]
                      noise_levels ==
                          [i \in 1..n |-> EntryGet(history[i], "noise_level")]
                      drift_trend == LinearTrendOfCounts(drift_rates)
                      noise_trend == LinearTrendOfCounts(noise_levels)
                      current_drift == drift_rates[n]
                      current_noise == noise_levels[n]
                      maintenance_predictions ==
                          MaintenancePredictions(drift_trend, current_drift,
                                                 noise_trend, current_noise)
                      next_maintenance_days ==
                          NextMaintenanceDays(maintenance_predictions)
                  IN  [kind |-> "return",
                       status |-> "analysis_complete",
                       next_maintenance_days |->
                           IntOfDays(next_maintenance_days),
                       urgency |-> Urgency(next_maintenance_days),
                       message |-> MaintenanceMessage(next_maintenance_days),
                       current_performance |->
                           [drift_rate |-> current_drift,
                            noise_level |-> current_noise],
                       performance_trends |->
                           [drift_trend |-> drift_trend,
                            noise_trend |-> noise_trend]]

-----------------------------------------------------------------------------
(* Inputs *)

MaxLen == 21

PatternHigh == 3

BigLevel == 250

BaseLevel == 1000

MaxSlope == 30

MaxReading == 2

MaxMeasurements == 4

\* The minimum number of samples of detect_sensor_drift (line 71).
MinSamples == 10

Lens == 0..MaxLen

Levels == {0, 1, PatternHigh, BigLevel}

Slopes == {-MaxSlope, -1, 1, 2, MaxSlope}

ConstSeries(n, v) == [i \in 1..n |-> v]

\* lo up to the midpoint n // 2 (exclusive, 0-based), hi from it on.
StepSeries(n, lo, hi) == [i \in 1..n |-> IF i <= n \div 2 THEN lo ELSE hi]

RampSeries(n, a, b) == [i \in 1..n |-> a + b * (i - 1)]

\* base everywhere but v at the 0-based index p.
SpikeSeries(n, p, base, v) == [i \in 1..n |-> IF i = p + 1 THEN v ELSE base]

Patterns == [1..MinSamples -> {0, PatternHigh}]

DetectSeries ==
    Patterns
    \cup {ConstSeries(n, v) : n \in Lens, v \in Levels}
    \cup {StepSeries(n, lh[1], lh[2]) : n \in Lens, lh \in Levels \X Levels}
    \cup {RampSeries(n, ab[1], ab[2]) :
              n \in Lens, ab \in {0, BaseLevel} \X Slopes}
    \cup {SpikeSeries(n, p, 1, v) :
              n \in Lens \ {0}, p \in {0, 5}, v \in Levels}

SensorTypes == {"electrode", "pH", "conductivity", "temperature"}

ElectrodeTypes == {None, "", "SS", "Cu", "Zn", "Ag", "Pt", "Au"}

SensorConfigs ==
    {c \in SensorTypes \X ElectrodeTypes :
        c[1] = "electrode" \/ c[2] \in {None, "SS", "Au"}}

\* Temperatures in 0.1 degrees C and readings in 1e-4 V around 2.0 V.
Temperatures == {0, 249, 250, 251, 370}

Readings ==
    {2 * UnitsPerVolt + d * 100 : d \in (-MaxReading)..MaxReading} \cup {0}

\* Measurements of the Kalman filter, in 1e-7 V.
KalmanLevels == {0, 1000, 2500}

KalmanSeries ==
    UNION {[1..n -> KalmanLevels] : n \in 0..MaxMeasurements}

\* Electrode values of the cross validator: expected values up to
\* MaxExpected, actual values up to three times as far.
MaxExpected == 3

ActualLevels ==
    0..MaxExpected \cup {3 * MaxExpected - 1, 3 * MaxExpected}

Responses ==
    { [e \in {"SS", "Cu", "Zn"} |->
          CASE e = "SS" -> 1 [] e = "Cu" -> 2 [] e = "Zn" -> MaxExpected],
      [e \in {"SS", "Cu", "Zn"} |->
          CASE e = "SS" -> 0 [] e = "Cu" -> 1 [] e = "Zn" -> 2],
      [e \in {"SS", "Cu", "Zn"} |-> 2],
      [e \in {"SS", "Cu"} |-> IF e = "SS" THEN 1 ELSE 2],
      [e \in {"SS", "Cu", "Zn", "Ag", "Pt"} |->
          CASE e = "SS" -> 1 [] e = "Cu" -> 2 [] e = "Zn" -> MaxExpected
            [] e = "Ag" -> 2 [] e = "Pt" -> 1] }

ReferenceProfiles ==
    {NoDict, EmptyDict, Dict([herb |-> "tulsi"])}
    \cup {Dict([electrode_response |-> r]) : r \in Responses}

FullReadings ==
    {Dict([k \in {"SS_voltage", "Cu_voltage", "Zn_voltage"} |->
              CASE k = "SS_voltage" -> a[1] [] k = "Cu_voltage" -> a[2]
                [] k = "Zn_voltage" -> a[3]]) :
        a \in ActualLevels \X ActualLevels \X ActualLevels}

PartialReadings ==
    {Dict([k \in {"SS_voltage"} |-> a]) : a \in ActualLevels}
    \cup {Dict([k \in {"SS_voltage", "Cu_voltage"} |->
                   IF k = "SS_voltage" THEN 1 ELSE a]) : a \in ActualLevels}

CurrentReadings ==
    {NoDict, EmptyDict} \cup FullReadings \cup PartialReadings

HerbNames == {"tulsi"}

\* Histories of the forecaster.  A metric follows
\* max(0, base + slope * i + kink * max(0, i - n \div 2)) over the entries
\* i = 0..n-1, in units of 10^scale counts.
MinHistory == 20

MaxHistory == 21

HistoryLens == {0, MinHistory - 1, MinHistory, MaxHistory}

PowersOfTen == [k \in 0..ValueDigits |-> BigPow10(k)]

MetricValue(n, i, m) ==
    BigScale(PowersOfTen[m.scale],
             Max(0, m.base + m.slope * i + m.kink * Max(0, i - n \div 2)))

DriftMetrics ==
    [scale : {0, 9}, base : {0, 1, 10, 45}, slope : {-1, 0, 1, 2},
     kink : {0, 1}]

NoiseMetrics ==
    [scale : {0, 8}, base : {0, 95}, slope : {0, 1}, kink : {0}]

\* The fields of an entry, and the entries that lack one.
AllFields == {"timestamp", "drift_rate", "noise_level"}

EntryShapes == {AllFields \ {k} : k \in AllFields}

HistoryEntry(n, i, drift, noise, shape) ==
    [k \in shape |->
        CASE k = "timestamp" -> BigFromNat(i)
          [] k = "drift_rate" -> MetricValue(n, i, drift)
          [] k = "noise_level" -> MetricValue(n, i, noise)]

SensorHistories ==
    {NoList}
    \cup {List([j \in 1..n |-> HistoryEntry(n, j - 1, d, ns, AllFields)]) :
              n \in HistoryLens, d \in DriftMetrics, ns \in NoiseMetrics}
    \cup {List([j \in 1..MinHistory |->
                   HistoryEntry(MinHistory, j - 1, d,
                                [scale |-> 8, base |-> 0, slope |-> 1,
                                 kink |-> 0], shape)]) :
              d \in DriftMetrics, shape \in EntryShapes}

UsageData == {NoDict, Dict([hours |-> 10])}

\* Series of the least-squares slope: fewer than 8 values, whole and
\* fractional volts.
MaxTrendLen == 5

TrendSeries ==
    {ConstSeries(n, v) :
         n \in 0..MaxTrendLen,
         v \in {0, 1000, 3000, 7000, UnitsPerVolt, 14200, 18500}}
    \cup {RampSeries(n, ab[1], ab[2]) :
              n \in 0..MaxTrendLen,
              ab \in {0, UnitsPerVolt, 14200}
                     \X {UnitsPerVolt, 10, 3, -UnitsPerVolt}}
    \cup {SpikeSeries(n, p, 7000, v) :
              n \in 2..MaxTrendLen, p \in {0, 1},
              v \in {14200, 3 * UnitsPerVolt}}

\* The calls that run concurrently.
Jobs ==
    {[op |-> "kalman_filter_enhancement", measurements |-> m,
      sensor_type |-> s] :
         m \in {<<0, 1000>>, <<0, 1000, 2500>>, <<2500, 0, 1000>>},
         s \in {"electrode", "pH"}}
    \cup {[op |-> "_calculate_cusum", data |-> d] :
              d \in {<<0, 0, PatternHigh>>, <<PatternHigh, 0, 0, 1>>}}
    \cup {[op |-> "_statistical_process_control", data |-> d] :
              d \in {<<0, PatternHigh, PatternHigh>>,
                     ConstSeries(MinSamples, 1)}}

Confidences == {0, 25, 50, 75, 100}

DriftRates ==
    {Rat(n, 1000) : n \in {-11, -10, -9, 0, 9, 10, 11}}

-----------------------------------------------------------------------------
(* Concurrent calls.  Several callers may be inside the engine at once.    *)
(* Each call runs its loop one iteration at a time on the local variables  *)
(* of its own stack frame; the iterations of different calls interleave in *)
(* any order.  A frame holds the locals of the three loops: the Kalman     *)
(* loop (lines 312-328), the CUSUM loop (lines 149-154) and the Rule 2     *)
(* loop of the SPC (lines 207-221); i is the index of the next iteration.  *)
(* The CUSUM arrays start as np.zeros does, with the zero of index 0, and   *)
(* grow by one entry an iteration.                                         *)

Threads == {"t1", "t2"}

IdleThread == [pc |-> "idle", job |-> [op |-> "none"], result |-> << >>]

NoFrame ==
    [i |-> 0, x_est |-> 0, p_est |-> 0, filtered |-> << >>,
     cusum_pos |-> <<CusumZero>>, cusum_neg |-> <<CusumZero>>,
     consecutive_above |-> 0, consecutive_below |-> 0,
     rule2_violation |-> FALSE]

\* The frame of a call: the locals of a call are its own.
FrameOf_Shared(thread) == CHOOSE f \in Threads : TRUE

FrameOf(thread) == thread

\* The series a job loops over.
JobData(job) ==
    IF job.op = "kalman_filter_enhancement" THEN job.measurements
    ELSE job.data

\* The locals at the head of the loop.
EnterLoop(job) ==
    IF job.op = "kalman_filter_enhancement"
    THEN IF KalmanTooShort(Len(job.measurements))
         THEN [NoFrame EXCEPT !.i = Len(job.measurements),
                              !.filtered = job.measurements]
         ELSE [NoFrame EXCEPT !.x_est = job.measurements[1],
                              !.p_est = CovScale]
    ELSE IF job.op = "_calculate_cusum"
    THEN [NoFrame EXCEPT !.i = 1]
    ELSE NoFrame

\* One iteration of the loop of the job on the locals of frame.
Iterate(job, frame) ==
    LET i == frame.i + 1
    IN  IF job.op = "kalman_filter_enhancement"
        THEN LET s == KalmanStep([x_est |-> frame.x_est,
                                  p_est |-> frame.p_est],
                                 job.measurements[i],
                                 KalmanNoise(job.sensor_type))
             IN  [frame EXCEPT !.i = i, !.x_est = s.x_est, !.p_est = s.p_est,
                               !.filtered = Append(@, s.x_est)]
        ELSE IF job.op = "_calculate_cusum"
        THEN LET scale == CusumScale(Prefix(job.data, 10))
                 d     == scale.m * job.data[i] - scale.s
             IN  [frame EXCEPT
                     !.i = i,
                     !.cusum_pos =
                         Append(@, CusumPosStep(
                                       frame.cusum_pos[Len(frame.cusum_pos)],
                                       d, scale)),
                     !.cusum_neg =
                         Append(@, CusumNegStep(
                                       frame.cusum_neg[Len(frame.cusum_neg)],
                                       d, scale))]
        ELSE LET s == Rule2Step([above |-> frame.consecutive_above,
                                 below |-> frame.consecutive_below],
                                Len(job.data) * job.data[i]
                                    > np_sum(job.data))
             IN  [frame EXCEPT
                     !.i = IF s.violation THEN Len(job.data) ELSE i,
                     !.consecutive_above = s.above,
                     !.consecutive_below = s.below,
                     !.rule2_violation = s.violation]

\* What the call returns from its locals after the loop.
LoopResult(job, frame) ==
    IF job.op = "kalman_filter_enhancement"
    THEN [filtered |-> frame.filtered]
    ELSE IF job.op = "_calculate_cusum"
    THEN [cusum_positive |-> frame.cusum_pos,
          cusum_negative |-> frame.cusum_neg]
    ELSE [rule2_violation |-> frame.rule2_violation]

-----------------------------------------------------------------------------
(* The engine *)

NoCall == [op |-> "none"]

\* __init__
Init ==
    /\ reference_standards = LoadReferenceStandards
    /\ calibration_history = << >>
    /\ drift_models = << >>
    /\ last_calibration = None
    /\ pc = "idle"
    /\ call = NoCall
    /\ result = None
    /\ threads = [t \in Threads |-> IdleThread]
    /\ frames = [f \in Threads |-> NoFrame]

\* DetectSensorDrift keeping a record of the call in calibration_history.
DetectSensorDrift_Recording ==
    /\ pc = "idle"
    /\ \E sensor_readings \in DetectSeries, c \in SensorConfigs :
          /\ call' = [op |-> "detect_sensor_drift",
                      sensor_readings |-> sensor_readings,
                      sensor_type |-> c[1], electrode_type |-> c[2]]
          /\ result' = detect_sensor_drift(reference_standards,
                                           sensor_readings, c[1], c[2])
    /\ pc' = "returned"
    /\ calibration_history' = Append(calibration_history, call')
    /\ UNCHANGED <<reference_standards, drift_models, last_calibration,
                   workers>>

DetectSensorDrift ==
    /\ pc = "idle"
    /\ \E sensor_readings \in DetectSeries, c \in SensorConfigs :
          /\ call' = [op |-> "detect_sensor_drift",
                      sensor_readings |-> sensor_readings,
                      sensor_type |-> c[1], electrode_type |-> c[2]]
          /\ result' = detect_sensor_drift(reference_standards,
                                           sensor_readings, c[1], c[2])
    /\ pc' = "returned"
    /\ UNCHANGED <<engine, workers>>

GenerateDriftRecommendation ==
    /\ pc = "idle"
    /\ \E drift_detected \in BOOLEAN, confidence \in Confidences,
          drift_rate \in DriftRates :
          /\ call' = [op |-> "_generate_drift_recommendation",
                      drift_detected |-> drift_detected,
                      confidence |-> confidence,
                      drift_rate |-> drift_rate]
          /\ result' = _generate_drift_recommendation(
                           drift_detected, confidence, drift_rate)
    /\ pc' = "returned"
    /\ UNCHANGED <<engine, workers>>

ApplyTemperatureCompensation ==
    /\ pc = "idle"
    /\ \E reading \in Readings, temperature \in Temperatures,
          c \in SensorConfigs :
          /\ call' = [op |-> "apply_temperature_compensation",
                      reading |-> reading, temperature |-> temperature,
                      sensor_type |-> c[1], electrode_type |-> c[2]]
          /\ result' = apply_temperature_compensation(
                           reference_standards, reading, temperature,
                           c[1], c[2])
    /\ pc' = "returned"
    /\ UNCHANGED <<engine, workers>>

KalmanFilterEnhancement ==
    /\ pc = "idle"
    /\ \E measurements \in KalmanSeries, sensor_type \in SensorTypes :
          /\ call' = [op |-> "kalman_filter_enhancement",
                      measurements |-> measurements,
                      sensor_type |-> sensor_type]
          /\ result' = kalman_filter_enhancement(measurements, sensor_type)
    /\ pc' = "returned"
    /\ UNCHANGED <<engine, workers>>

CrossValidationCheck ==
    /\ pc = "idle"
    /\ \E current_readings \in CurrentReadings,
          reference_profile \in ReferenceProfiles, herb_name \in HerbNames :
          /\ call' = [op |-> "cross_validation_check",
                      current_readings |-> current_readings,
                      reference_profile |-> reference_profile,
                      herb_name |-> herb_name]
          /\ result' = cross_validation_check(current_readings,
                                              reference_profile, herb_name)
    /\ pc' = "returned"
    /\ UNCHANGED <<engine, workers>>

PredictiveMaintenanceAnalysis ==
    /\ pc = "idle"
    /\ \E sensor_history \in SensorHistories, usage_data \in UsageData :
          /\ call' = [op |-> "predictive_maintenance_analysis",
                      sensor_history |-> sensor_history,
                      usage_data |-> usage_data]
          /\ result' = predictive_maintenance_analysis(sensor_history,
                                                       usage_data)
    /\ pc' = "returned"
    /\ UNCHANGED <<engine, workers>>

CalculateLinearTrend ==
    /\ pc = "idle"
    /\ \E y \in TrendSeries :
          /\ call' = [op |-> "_calculate_linear_trend",
                      x |-> np_arange(Len(y)), y |-> y]
          /\ result' = FloatLinearTrend(np_arange(Len(y)), y)
    /\ pc' = "returned"
    /\ UNCHANGED <<engine, workers>>

\* The caller takes the result; nothing of the call outlives it.
Return ==
    /\ pc = "returned"
    /\ pc' = "idle"
    /\ call' = NoCall
    /\ result' = None
    /\ UNCHANGED <<engine, workers>>

\* A caller enters an operation: a new frame holds its locals.
Enter(thread) ==
    /\ threads[thread].pc = "idle"
    /\ \E job \in Jobs :
          /\ threads' = [threads EXCEPT
                             ![thread] = [pc |-> "running", job |-> job,
                                          result |-> << >>]]
          /\ frames' = [frames EXCEPT ![FrameOf(thread)] = EnterLoop(job)]
    /\ UNCHANGED <<engine, pc, call, result>>

\* One iteration of the loop of a call in flight.
Iteration(thread) ==
    /\ threads[thread].pc = "running"
    /\ frames[FrameOf(thread)].i < Len(JobData(threads[thread].job))
    /\ frames' = [frames EXCEPT
                      ![FrameOf(thread)] = Iterate(threads[thread].job, @)]
    /\ UNCHANGED <<engine, pc, call, result, threads>>

\* The loop is over: the call returns what its locals hold and its frame
\* is gone.
Leave(thread) ==
    /\ threads[thread].pc = "running"
    /\ frames[FrameOf(thread)].i >= Len(JobData(threads[thread].job))
    /\ threads' = [threads EXCEPT
                       ![thread].pc = "done",
                       ![thread].result =
                           LoopResult(threads[thread].job,
                                      frames[FrameOf(thread)])]
    /\ frames' = [frames EXCEPT ![FrameOf(thread)] = NoFrame]
    /\ UNCHANGED <<engine, pc, call, result>>

\* The caller takes the result.
Collect(thread) ==
    /\ threads[thread].pc = "done"
    /\ threads' = [threads EXCEPT ![thread] = IdleThread]
    /\ UNCHANGED <<engine, pc, call, result, frames>>

Next ==
    \/ DetectSensorDrift
    \/ GenerateDriftRecommendation
    \/ ApplyTemperatureCompensation
    \/ KalmanFilterEnhancement
    \/ CrossValidationCheck
    \/ PredictiveMaintenanceAnalysis
    \/ CalculateLinearTrend
    \/ Return

Spec == Init /\ [][Next]_vars

\* The engine keeps nothing from one call to the next, so each operation is
\* also explored on its own.
NextSensor ==
    \/ DetectSensorDrift
    \/ GenerateDriftRecommendation
    \/ ApplyTemperatureCompensation
    \/ KalmanFilterEnhancement
    \/ Return

SpecSensor == Init /\ [][NextSensor]_vars

NextCompensate == ApplyTemperatureCompensation \/ Return

SpecCompensate == Init /\ [][NextCompensate]_vars

NextFilter == KalmanFilterEnhancement \/ Return

SpecFilter == Init /\ [][NextFilter]_vars

NextValidate == CrossValidationCheck \/ Return

SpecValidate == Init /\ [][NextValidate]_vars

NextForecast == PredictiveMaintenanceAnalysis \/ Return

SpecForecast == Init /\ [][NextForecast]_vars

NextTrend == CalculateLinearTrend \/ Return

SpecTrend == Init /\ [][NextTrend]_vars

\* Calls in flight at the same time, their iterations interleaved.
NextConcurrent ==
    \E thread \in Threads :
        \/ Enter(thread)
        \/ Iteration(thread)
        \/ Leave(thread)
        \/ Collect(thread)

SpecConcurrent == Init /\ [][NextConcurrent]_vars

-----------------------------------------------------------------------------
(* Properties *)

Returned_(op) == pc = "returned" /\ call.op = op

\* detect_sensor_drift has returned its full result (not the sentinel, not
\* an exception).
DetectFull ==
    /\ Returned_("detect_sensor_drift")
    /\ result.kind = "return"
    /\ "individual_indicators" \in DOMAIN result

KnownElectrodes == {"SS", "Cu", "Zn", "Ag", "Pt"}

KnownSensors == {"electrode", "pH", "conductivity"}

\* Monthly aging rates of the reference table, in thousandths.
AgingThousandths ==
    [e \in KnownElectrodes |->
        CASE e = "SS" -> 5 [] e = "Cu" -> 8 [] e = "Zn" -> 6
          [] e = "Ag" -> 4 [] e = "Pt" -> 3]

\* The trend threshold of a call that returns: aging_rate/30 for an electrode
\* call that names a table electrode, 1.0 for pH, 0.01 for every other call.
ApplicableThreshold(sensor_type, electrode_type) ==
    IF sensor_type = "electrode" /\ electrode_type \in KnownElectrodes
    THEN Rat(AgingThousandths[electrode_type], 30000)
    ELSE IF sensor_type = "pH" THEN Rat(1, 1)
    ELSE Rat(1, 100)

IsConstant(s) == \A i \in 1..Len(s) : s[i] = s[1]

\* Constant up to the midpoint Len(s) // 2, constant at another level from it.
\* The step exceeds h times the floored standard deviation of the baseline.
IsMidStep(s) ==
    /\ Len(s) >= 2
    /\ s = StepSeries(Len(s), s[1], s[Len(s)])
    /\ FracLess(cusum_h * cusum_std_floor.num, cusum_std_floor.den,
                Abs(s[Len(s)] - s[1]), 1)

\* a + b*i with b # 0
IsRamp(s) ==
    /\ Len(s) >= 2
    /\ s[2] # s[1]
    /\ \A i \in 2..Len(s) : s[i] - s[i - 1] = s[2] - s[1]

\* |b| * 3600 / n volts per hour for a ramp of b counts per sample.
RampRate(s) == RatNorm(Abs(s[2] - s[1]) * 9, Len(s) * 25)

\* C1: in every full result of detect_sensor_drift (a series of at least 10
\* samples), drift_confidence is the number of true indicators out of the
\* four, divided by 4, and drift_detected holds exactly when
\* drift_confidence >= 0.4, that is when at least 2 indicators are true.
C1_ConfidenceIsVote ==
    DetectFull =>
        LET k == CountTrue(result.individual_indicators)
        IN  /\ Len(call.sensor_readings) >= 10
            /\ DOMAIN result.individual_indicators =
                   {"linear_trend", "cusum_alarm", "range_alarm", "spc_alarm"}
            /\ result.drift_confidence * 4 = k * 100
            /\ result.drift_detected <=> (result.drift_confidence >= 40)
            /\ result.drift_detected <=> (k >= 2)

C1_Witness ==
    /\ DetectFull
    /\ CountTrue(result.individual_indicators) = 2
    /\ result.drift_detected

\* C2: on every series of fewer than 10 samples, the empty one included, and
\* for every sensor_type and electrode_type, those missing from the table
\* included, detect_sensor_drift returns the insufficient-data sentinel and
\* does not raise.
C2_ShortSeriesSentinel ==
    (Returned_("detect_sensor_drift") /\ Len(call.sensor_readings) < 10) =>
        result = [kind |-> "return", drift_detected |-> FALSE,
                  reason |-> "Insufficient data"]

C2_Witness ==
    /\ Returned_("detect_sensor_drift")
    /\ Len(call.sensor_readings) = 9
    /\ call.sensor_type = "electrode"
    /\ call.electrode_type = "Au"
    /\ result.kind = "return"
    /\ result.reason = "Insufficient data"

RecommendationFor(drift_detected, confidence, drift_rate, rec) ==
    LET fast == RatLess(Rat(1, 100), RatAbs(drift_rate))
    IN  /\ <<rec.action, rec.urgency, rec.next_check_hours>> \in
               {<<"monitor", "low", 24>>,
                <<"increase_monitoring", "medium", 4>>,
                <<"immediate_calibration", "high", 1>>,
                <<"schedule_calibration", "medium", 8>>}
        /\ ~drift_detected => rec.action = "monitor"
        /\ (drift_detected /\ confidence < 60) =>
               rec.action = "increase_monitoring"
        /\ (drift_detected /\ confidence >= 60 /\ fast) =>
               rec.action = "immediate_calibration"
        /\ (drift_detected /\ confidence >= 60 /\ ~fast) =>
               rec.action = "schedule_calibration"

\* C3: the recommendation is decided by (drift_detected, drift_confidence,
\* drift_rate) in this order: not detected -> monitor/low/24; confidence below
\* 0.6 -> increase_monitoring/medium/4; |drift_rate| > 0.01 ->
\* immediate_calibration/high/1; otherwise schedule_calibration/medium/8; it
\* is always one of these four, for a direct call on any triple and inside
\* every full result of detect_sensor_drift.
C3_RecommendationPrecedence ==
    /\ Returned_("_generate_drift_recommendation") =>
           RecommendationFor(call.drift_detected, call.confidence,
                             call.drift_rate, result)
    /\ DetectFull =>
           RecommendationFor(result.drift_detected, result.drift_confidence,
                             result.drift_rate_per_hour, result.recommendation)

C3_Witness ==
    /\ Returned_("_generate_drift_recommendation")
    /\ call.drift_detected
    /\ call.confidence = 50
    /\ RatLess(Rat(1, 100), RatAbs(call.drift_rate))
    /\ result.action = "increase_monitoring"

\* C4: on every constant series of at least 10 samples detect_sensor_drift
\* reports no drift, confidence 0 and no true indicator.
C4_ConstantSeriesNoDrift ==
    (DetectFull /\ IsConstant(call.sensor_readings)) =>
        /\ ~result.drift_detected
        /\ result.drift_confidence = 0
        /\ CountTrue(result.individual_indicators) = 0

\* 9 consecutive points strictly above, or 9 strictly below, the mean.
Rule2Strict(s) ==
    LET n   == Len(s)
        sum == np_sum(s)
    IN  \E i \in 1..(n - 8) :
            \/ \A j \in i..(i + 8) : n * s[j] > sum
            \/ \A j \in i..(i + 8) : n * s[j] < sum

\* C5: Rule 2 fires exactly when 9 or more consecutive points lie strictly
\* on one side of the mean; a point equal to the mean is on neither side.
C5_Rule2StrictSides ==
    DetectFull =>
        (result.spc_statistics.rule2_violation
             <=> Rule2Strict(call.sensor_readings))

\* C6 as claimed: every midpoint step of at least 10 samples raises the CUSUM
\* alarm, also when the midpoint is among the first 10 samples.
C6_EveryMidStepAlarms ==
    (DetectFull /\ IsMidStep(call.sensor_readings)) =>
        result.individual_indicators.cusum_alarm

\* C6 as amended: a series of at least 12 samples, constant before its
\* midpoint and constant from it on at a level more than h * 1e-6 V away,
\* raises the CUSUM alarm; such a step of 10 or 11 samples does not.
C6_MidStepOfTwelveAlarms ==
    (DetectFull /\ IsMidStep(call.sensor_readings)) =>
        (result.individual_indicators.cusum_alarm
             <=> Len(call.sensor_readings) >= 12)

C6_Witness ==
    /\ DetectFull
    /\ IsMidStep(call.sensor_readings)
    /\ Len(call.sensor_readings) = 12
    /\ result.cusum_statistics.positive_alarm
    /\ ~result.cusum_statistics.negative_alarm

\* C7: a ramp of at least 10 samples whose hourly rate |b|*3600/n exceeds the
\* threshold of its call has linear_trend true and drift_confidence >= 0.25.
C7_RampTrend ==
    (/\ DetectFull
     /\ IsRamp(call.sensor_readings)
     /\ RatLess(ApplicableThreshold(call.sensor_type, call.electrode_type),
                RampRate(call.sensor_readings))) =>
        /\ result.individual_indicators.linear_trend
        /\ result.drift_confidence >= 25

C7_Witness ==
    /\ DetectFull
    /\ IsRamp(call.sensor_readings)
    /\ call.sensor_type = "pH"
    /\ RatLess(Rat(1, 1), RampRate(call.sensor_readings))
    /\ result.individual_indicators.linear_trend

\* C8 as claimed: every electrode call compares the rate with aging_rate/30
\* of a table entry (the entry of its electrode_type when it names one), a pH
\* call with 1.0 and every other call with 0.01.
C8_ElectrodeAlwaysAging ==
    DetectFull =>
        LET rate == RatAbs(result.drift_rate_per_hour)
            trend == result.individual_indicators.linear_trend
        IN  IF call.sensor_type = "electrode"
            THEN \E e \in KnownElectrodes :
                    /\ call.electrode_type \in KnownElectrodes
                           => e = call.electrode_type
                    /\ trend <=> RatLess(Rat(AgingThousandths[e], 30000), rate)
            ELSE trend <=> RatLess(ApplicableThreshold(call.sensor_type,
                                                       call.electrode_type),
                                   rate)

\* C8 as amended: the rate is compared with aging_rate/30 of the entry of
\* electrode_type for an electrode call that names an electrode, with 1.0 for
\* a pH call, and with 0.01 for every other call, an electrode call without
\* an electrode_type included.
C8_ThresholdByContext ==
    DetectFull =>
        (result.individual_indicators.linear_trend
             <=> RatLess(ApplicableThreshold(call.sensor_type,
                                             call.electrode_type),
                         RatAbs(result.drift_rate_per_hour)))

C8_Witness ==
    /\ DetectFull
    /\ call.sensor_type = "electrode"
    /\ call.electrode_type = None
    /\ RatLess(Rat(8, 30000), RatAbs(result.drift_rate_per_hour))
    /\ ~result.individual_indicators.linear_trend

\* C9: an electrode call whose electrode_type is a non-empty value missing
\* from the table ends in an exception, in detect_sensor_drift on at least
\* 10 samples and in apply_temperature_compensation.
C9_UnknownElectrodeRaises ==
    (/\ \/ Returned_("detect_sensor_drift")
              /\ Len(call.sensor_readings) >= 10
        \/ Returned_("apply_temperature_compensation")
     /\ call.sensor_type = "electrode"
     /\ Truthy(call.electrode_type)
     /\ call.electrode_type \notin KnownElectrodes) =>
        result = [kind |-> "raise", exc |-> "KeyError"]

C9_Witness ==
    /\ Returned_("detect_sensor_drift")
    /\ Len(call.sensor_readings) >= 10
    /\ call.sensor_type = "electrode"
    /\ call.electrode_type = "Au"
    /\ result.kind = "raise"

SensorCall ==
    \/ Returned_("detect_sensor_drift")
    \/ Returned_("apply_temperature_compensation")
    \/ Returned_("kalman_filter_enhancement")

\* C10 as claimed: a sensor_type missing from the table ends the call in an
\* exception.
C10_UnknownSensorRaises ==
    (SensorCall /\ call.sensor_type \notin KnownSensors) =>
        result.kind = "raise"

\* C10 as amended: a sensor_type missing from the table raises nothing: the
\* detector compares the rate with the default 0.01 (or returns the sentinel
\* below 10 samples), the compensator subtracts -1.0e-3 V per degree from 25,
\* and the filter returns what it returns for 'pH'.
C10_UnknownSensorDefaults ==
    (SensorCall /\ call.sensor_type \notin KnownSensors) =>
        /\ result.kind = "return"
        /\ DetectFull =>
               (result.individual_indicators.linear_trend
                    <=> RatLess(Rat(1, 100),
                                RatAbs(result.drift_rate_per_hour)))
        /\ Returned_("apply_temperature_compensation") =>
               result.value =
                   FloatSub(FloatReading(call.reading),
                            FloatMul(FloatOf(-1, 1000),
                                     FloatSub(FloatTemperature(call.temperature),
                                              FloatInt(25))))
        /\ Returned_("kalman_filter_enhancement") =>
               result = kalman_filter_enhancement(call.measurements, "pH")

C10_Witness ==
    /\ Returned_("detect_sensor_drift")
    /\ call.sensor_type = "temperature"
    /\ DetectFull
    /\ result.individual_indicators.linear_trend

\* C11: at exactly 25.0 degrees the compensator returns the reading
\* unchanged in every branch that returns: an electrode of the table, pH,
\* conductivity and the default branch.
C11_IdentityAtReference ==
    (/\ Returned_("apply_temperature_compensation")
     /\ call.temperature = 25 * TempUnitsPerDegree
     /\ result.kind = "return") =>
        result.value = FloatReading(call.reading)

\* C12: kalman_filter_enhancement returns a series as long as its input,
\* and returns an input of fewer than 3 samples as it is, without raising.
C12_FilterKeepsLength ==
    Returned_("kalman_filter_enhancement") =>
        /\ result.kind = "return"
        /\ Len(result.value) = Len(call.measurements)
        /\ Len(call.measurements) < 3 => result.value = call.measurements

C12_Witness ==
    /\ Returned_("kalman_filter_enhancement")
    /\ Len(call.measurements) = 2
    /\ call.measurements[1] # call.measurements[2]
    /\ result.value = call.measurements

\* C13: on a series of n >= 3 samples the filter performs n - 1
\* predict/update steps, one for each sample after the first, and the
\* covariance that enters the predict step of the sample at index 1 is 1.0.
C13_StepsAfterFirstOnly ==
    (/\ Returned_("kalman_filter_enhancement")
     /\ Len(call.measurements) >= 3) =>
        /\ Len(result.steps) = Len(call.measurements) - 1
        /\ result.steps[2].p_pred
               - KalmanNoise(call.sensor_type).process_noise = CovScale

\* The electrodes that have a value in the reference profile and in the
\* current readings of the call.
ElectrodesInBoth ==
    {e \in {electrodes[i] : i \in DOMAIN electrodes} :
        /\ ~DictFalsy(call.reference_profile)
        /\ ~DictFalsy(call.current_readings)
        /\ e \in DOMAIN DictGet(call.reference_profile, "electrode_response",
                                << >>)
        /\ VoltageKey(e) \in DOMAIN call.current_readings.items}

\* The result is a full ValidationResult, not a sentinel.
ValidationFull ==
    /\ Returned_("cross_validation_check")
    /\ "metrics" \in DOMAIN result

ValidationSentinel ==
    /\ Returned_("cross_validation_check")
    /\ result.validation_score = 0
    /\ result.status \in {"insufficient_data", "insufficient_reference_data"}
    /\ DOMAIN result = {"kind", "validation_score", "status"}

\* C14: cross_validation_check returns the sentinel whenever fewer than 3
\* electrodes have a value in both the reference profile and the current
\* readings, and a full result only when at least 3 have.
C14_ThreeElectrodesInBoth ==
    Returned_("cross_validation_check") =>
        /\ Cardinality(ElectrodesInBoth) < 3 => ValidationSentinel
        /\ ValidationFull => Cardinality(ElectrodesInBoth) >= 3

\* C15: the validation score lies in [0, 100]; in a full result it is the
\* sum of three terms, each between 0 and its weight (30, 30, 40), and on
\* the sentinel paths it is 0.
C15_ScoreInRange ==
    Returned_("cross_validation_check") =>
        /\ result.validation_score >= 0
        /\ result.validation_score <= 100 * ScoreScale
        /\ ~ValidationFull => result.validation_score = 0
        /\ ValidationFull =>
               LET c == correlation_score(result.metrics.correlation)
                   r == rmse_score(result.metrics.normalized_rmse)
                   m == error_score(result.metrics.mean_relative_error)
               IN  /\ result.validation_score = c + r + m
                   /\ 0 <= c /\ c <= CorrelationWeight * ScoreScale
                   /\ 0 <= r /\ r <= RmseWeight * ScoreScale
                   /\ 0 <= m /\ m <= ErrorWeight * ScoreScale

\* A full result on a reference whose expected values are all equal: the
\* correlation is nan, the normalised rmse inf, and the score is positive.
C15_Witness ==
    /\ ValidationFull
    /\ result.metrics.correlation = NaN
    /\ result.metrics.normalized_rmse = Inf
    /\ result.validation_score > 0

StatusRank(status) ==
    CASE status = "no_match" -> 0
      [] status = "poor_match" -> 1
      [] status = "acceptable_match" -> 2
      [] status = "good_match" -> 3
      [] status = "excellent_match" -> 4

\* Scores around every bucket bound, from 0 to 100.
ScoreSamples ==
    {b * ScoreScale + d : b \in {20, 40, 60, 80}, d \in {-1, 0, 1}}
    \cup {0, 100 * ScoreScale}

\* C16: the status of a full result is decided by its score alone, by the
\* buckets >= 80, [60, 80), [40, 60), [20, 40), < 20, and a score at least
\* as high never gets a worse status.
C16_StatusByScore ==
    ValidationFull =>
        LET score == result.validation_score
        IN  /\ result.status = "excellent_match" <=> score >= 80 * ScoreScale
            /\ result.status = "good_match"
                   <=> (60 * ScoreScale <= score /\ score < 80 * ScoreScale)
            /\ result.status = "acceptable_match"
                   <=> (40 * ScoreScale <= score /\ score < 60 * ScoreScale)
            /\ result.status = "poor_match"
                   <=> (20 * ScoreScale <= score /\ score < 40 * ScoreScale)
            /\ result.status = "no_match" <=> score < 20 * ScoreScale
            /\ \A s \in ScoreSamples :
                   /\ s >= score =>
                          StatusRank(ValidationStatus(s))
                              >= StatusRank(result.status)
                   /\ s <= score =>
                          StatusRank(ValidationStatus(s))
                              <= StatusRank(result.status)

C16_Witness ==
    /\ ValidationFull
    /\ result.status = "acceptable_match"
    /\ result.validation_score >= 50 * ScoreScale

\* closer is componentwise at least as close to expected as actual is, and
\* strictly closer in some component.
Closer(closer, actual, expected) ==
    /\ \A i \in DOMAIN expected :
           Abs(closer[i] - expected[i]) <= Abs(actual[i] - expected[i])
    /\ \E i \in DOMAIN expected :
           Abs(closer[i] - expected[i]) < Abs(actual[i] - expected[i])

\* The readings that are closer to the reference of the call than the
\* readings of the call, with a non-negative correlation on both sides.
CloserReadings ==
    {c \in FullReadings :
        /\ Closer(ActualValues(c, call.reference_profile),
                  result.electrode_comparison.actual,
                  result.electrode_comparison.expected)
        /\ IsNumber(result.metrics.correlation)
        /\ result.metrics.correlation.v >= 0
        /\ LET closer == cross_validation_check(c, call.reference_profile,
                                                call.herb_name)
           IN  /\ IsNumber(closer.metrics.correlation)
               /\ closer.metrics.correlation.v >= 0}

\* C17: for a fixed reference profile, readings that are componentwise
\* closer to the expected values, with a non-negative correlation on both
\* sides, never get a lower composite score.
C17_CloserNeverLower ==
    ValidationFull =>
        \A c \in CloserReadings :
            cross_validation_check(c, call.reference_profile, call.herb_name)
                .validation_score >= result.validation_score

\* C17 as amended: readings that are componentwise closer never get a lower
\* rmse term or a lower relative-error term, and never a lower composite
\* score when their correlation is at least that of the readings they are
\* compared with.
C17_CloserNeverLowerTerms ==
    ValidationFull =>
        \A c \in CloserReadings :
            LET closer == cross_validation_check(c, call.reference_profile,
                                                 call.herb_name)
            IN  /\ rmse_score(closer.metrics.normalized_rmse)
                       >= rmse_score(result.metrics.normalized_rmse)
                /\ error_score(closer.metrics.mean_relative_error)
                       >= error_score(result.metrics.mean_relative_error)
                /\ closer.metrics.correlation.v
                       >= result.metrics.correlation.v
                       => closer.validation_score >= result.validation_score

\* Closer readings with a correlation at least as high and a higher score.
C17_Witness ==
    /\ ValidationFull
    /\ \E c \in CloserReadings :
           LET closer == cross_validation_check(c, call.reference_profile,
                                                call.herb_name)
           IN  /\ closer.metrics.correlation.v
                      >= result.metrics.correlation.v
               /\ closer.validation_score > result.validation_score
               /\ rmse_score(closer.metrics.normalized_rmse)
                      > rmse_score(result.metrics.normalized_rmse)

\* The forecaster returned a full prediction, not the sentinel.
ForecastFull ==
    /\ Returned_("predictive_maintenance_analysis")
    /\ result.kind = "return"
    /\ result.status = "analysis_complete"

ForecastSentinel ==
    /\ Returned_("predictive_maintenance_analysis")
    /\ result = [kind |-> "return", status |-> "insufficient_data"]

\* The number of entries of the history of the call (0 for None).
HistoryLen ==
    IF call.sensor_history.type = "NoneType" THEN 0
    ELSE Len(call.sensor_history.items)

\* Every entry of the history has its three fields.
WellFormedHistory ==
    \A i \in 1..HistoryLen : DOMAIN call.sensor_history.items[i] = AllFields

\* The drift rates of a well-formed history rise strictly and stay below
\* the drift threshold.
DriftRisesBelowThreshold ==
    /\ \A i \in 1..(HistoryLen - 1) :
           BigLess(call.sensor_history.items[i].drift_rate,
                   call.sensor_history.items[i + 1].drift_rate)
    /\ \A i \in 1..HistoryLen :
           BigLess(call.sensor_history.items[i].drift_rate, drift_threshold)

\* C18: a history of fewer than 20 entries gets the insufficient-data
\* sentinel; a history of exactly 20 well-formed entries whose drift rate
\* rises strictly below 0.05 gets a full prediction with a whole
\* next_maintenance_days of at least 1 and at most 0.05 / 1e-10.
C18_SentinelBelowTwenty ==
    Returned_("predictive_maintenance_analysis") =>
        /\ HistoryLen < 20 => ForecastSentinel
        /\ (/\ HistoryLen = 20
            /\ WellFormedHistory
            /\ DriftRisesBelowThreshold) =>
               /\ ForecastFull
               /\ result.next_maintenance_days \in 1..500000000

C18_Witness ==
    /\ ForecastFull
    /\ HistoryLen = 20
    /\ WellFormedHistory
    /\ DriftRisesBelowThreshold
    /\ result.next_maintenance_days >= 1

\* max(1, (threshold - current) / divisor) for a divisor [num, den]
EstimateOver(divisor, current, threshold) ==
    AtLeastOneDay([num |-> BigScale(BigSub(threshold, current), divisor.den),
                   den |-> divisor.num])

\* max(trend, 1e-10)
FlooredTrend(trend) ==
    IF BigLess(trend.num, BigFromNat(TrendFloor * trend.den))
    THEN [num |-> BigFromNat(TrendFloor), den |-> 1]
    ELSE trend

\* The estimates of a full prediction, one for each metric whose trend is
\* > 0 and whose last value is below its threshold: over the trend itself,
\* or over the floored trend.
EstimatesBy(floored) ==
    LET dt == result.performance_trends.drift_trend
        nt == result.performance_trends.noise_trend
        cd == result.current_performance.drift_rate
        cn == result.current_performance.noise_level
    IN  (IF TrendPositive(dt) /\ BigLess(cd, drift_threshold)
         THEN {EstimateOver(IF floored THEN FlooredTrend(dt) ELSE dt,
                            cd, drift_threshold)}
         ELSE {})
        \cup (IF TrendPositive(nt) /\ BigLess(cn, noise_threshold)
              THEN {EstimateOver(IF floored THEN FlooredTrend(nt) ELSE nt,
                                 cn, noise_threshold)}
              ELSE {})

\* The whole days of the least estimate, or 90 when there is none.
WholeDaysOf(estimates) ==
    IF estimates = {} THEN 90
    ELSE IntOfDays(CHOOSE d \in estimates :
                       \A o \in estimates : ~DaysLess(o, d))

C20_UrgencyOfWholeDays ==
    ForecastFull =>
        /\ result.urgency = "critical" <=> result.next_maintenance_days < 7
        /\ result.urgency = "high"
               <=> (7 <= result.next_maintenance_days
                    /\ result.next_maintenance_days < 30)
        /\ result.urgency = "medium" <=> result.next_maintenance_days >= 30

\* The least estimate is not a whole number of days: the returned days are
\* truncated, within the bucket of 'high'.
C20_Witness ==
    /\ ForecastFull
    /\ result.urgency = "high"
    /\ \E d \in EstimatesBy(TRUE) :
           DaysLess(DaysOf(result.next_maintenance_days), d)

\* C21: no operation raises for a data-shape issue.  The forecaster
\* returns, and returns the insufficient-data sentinel for a history that is
\* too short or has an entry without one of its fields; the cross validator
\* returns, and returns a sentinel when the reference profile has no
\* electrode_response; the filter returns; the detector returns its sentinel
\* for a series of fewer than 10 samples.
C21_NoRaiseOnDataShape ==
    /\ Returned_("predictive_maintenance_analysis") =>
           /\ result.kind = "return"
           /\ (HistoryLen < 20 \/ ~WellFormedHistory) => ForecastSentinel
    /\ Returned_("cross_validation_check") =>
           /\ result.kind = "return"
           /\ (/\ ~DictFalsy(call.reference_profile)
               /\ "electrode_response"
                      \notin DOMAIN call.reference_profile.items) =>
                  ValidationSentinel
    /\ Returned_("kalman_filter_enhancement") => result.kind = "return"
    /\ (/\ Returned_("detect_sensor_drift")
        /\ Len(call.sensor_readings) < 10) =>
           result = [kind |-> "return", drift_detected |-> FALSE,
                     reason |-> "Insufficient data"]

\* C22: every denominator is floored, so none is ever zero: in a full
\* result of the cross validator the normalised RMSE (divided by the range
\* of the expected values) and every relative error (divided by the
\* expected value) is a finite number, and the compensator never divides
\* by a zero conductivity factor.
C22_DenominatorsFloored ==
    /\ ValidationFull =>
           /\ IsNumber(result.metrics.normalized_rmse)
           /\ \A i \in DOMAIN result.electrode_comparison.relative_errors :
                  IsNumber(result.electrode_comparison.relative_errors[i])
    /\ Returned_("apply_temperature_compensation") =>
           result # ZeroDivisionError

\* What the same call returns when it runs alone.
AloneResult(job) ==
    IF job.op = "kalman_filter_enhancement"
    THEN [filtered |->
              kalman_filter_enhancement(job.measurements,
                                        job.sensor_type).value]
    ELSE IF job.op = "_calculate_cusum"
    THEN [cusum_positive |-> _calculate_cusum(job.data).cusum_positive,
          cusum_negative |-> _calculate_cusum(job.data).cusum_negative]
    ELSE [rule2_violation |-> Rule2Loop(job.data).violation]

\* C24: a call that runs while other calls are in flight on the same
\* engine, their iterations interleaved in any order, returns what it
\* returns when it runs alone.
C24_SameResultAsAlone ==
    \A thread \in Threads :
        threads[thread].pc = "done" =>
            threads[thread].result = AloneResult(threads[thread].job)

\* Two Kalman passes over different series, both past their first
\* iteration, and then one of them done while the other is in its loop.
C24_Witness ==
    \E a, b \in Threads :
        /\ a # b
        /\ threads[a].pc = "done"
        /\ threads[a].job.op = "kalman_filter_enhancement"
        /\ Len(threads[a].job.measurements) = 3
        /\ threads[b].pc = "running"
        /\ threads[b].job.op = "kalman_filter_enhancement"
        /\ threads[b].job # threads[a].job
        /\ frames[FrameOf(b)].i = 2
        /\ threads[a].result = AloneResult(threads[a].job)

\* C23: whatever calls were made before, and whether they returned a
\* result, a sentinel or an exception, the engine holds the table loaded at
\* construction and the initial calibration_history, drift_models and
\* last_calibration, so that a call finds the engine as the first call
\* found it.
C23_EngineUnchanged ==
    /\ reference_standards = LoadReferenceStandards
    /\ calibration_history = << >>
    /\ drift_models = << >>
    /\ last_calibration = None

\* A call has failed and the engine is as it was constructed.
C23_Witness ==
    /\ Returned_("detect_sensor_drift")
    /\ result = KeyError
    /\ reference_standards = LoadReferenceStandards
    /\ calibration_history = << >>
    /\ drift_models = << >>
    /\ last_calibration = None

\* The sums of the claim: from zero sums, one step of the recurrence for
\* every sample of the series, the first included.
RECURSIVE CusumEverySampleFrom(_, _, _, _, _)
CusumEverySampleFrom(data, scale, positive, i, acc) ==
    IF i > Len(data) THEN acc
    ELSE LET d    == scale.m * data[i] - scale.s
             prev == IF i = 1 THEN CusumZero ELSE acc[i - 1]
             next == IF positive THEN CusumPosStep(prev, d, scale)
                     ELSE CusumNegStep(prev, d, scale)
         IN  CusumEverySampleFrom(data, scale, positive, i + 1,
                                  Append(acc, next))

CusumEverySample(data, positive) ==
    CusumEverySampleFrom(data, CusumScale(Prefix(data, 10)), positive, 1,
                         << >>)

\* C25: the sums the detector reports are S+_i = max(0, S+_{i-1} + z_i - k)
\* and S-_i = min(0, S-_{i-1} + z_i + k) over every sample of the series
\* from zero sums, with target and std of the first min(10, n) samples;
\* S+_i >= 0 and S-_i <= 0 at every index, and the alarm is raised exactly
\* when some S+_i > h or some S-_i < -h.
C25_SumsOverEverySample ==
    DetectFull =>
        LET data  == call.sensor_readings
            scale == CusumScale(Prefix(data, 10))
            stats == result.cusum_statistics
        IN  /\ stats.cusum_positive = CusumEverySample(data, TRUE)
            /\ stats.cusum_negative = CusumEverySample(data, FALSE)
            /\ \A i \in 1..Len(data) :
                   /\ ~CusumBelowH(stats.cusum_positive[i], scale)
                   /\ ~CusumAboveH(stats.cusum_negative[i], scale)
            /\ stats.alarm_triggered
                   <=> \E i \in 1..Len(data) :
                           \/ CusumAboveH(stats.cusum_positive[i], scale)
                           \/ CusumBelowH(stats.cusum_negative[i], scale)

\* Every value of the series is a whole number of volts.
WholeVolts(s) == \A i \in 1..Len(s) : s[i] % UnitsPerVolt = 0

\* The float f is within 1e-12 V per sample of the fraction r of counts
\* per sample (r.den > 0).
SlopeNear(f, r) ==
    LET up    == IF f.e < 0 THEN -f.e ELSE 0
        fmag  == BigMul(BigShiftLeft(f.m, IF f.e > 0 THEN f.e ELSE 0),
                        BigMul(BigPow10(12), BigFromNat(r.den)))
        rmag  == BigShiftLeft(BigMul(BigFromNat(Abs(r.num)), BigPow10(8)),
                              up)
        bound == BigShiftLeft(BigFromNat(r.den), up)
        same  == f.m = BigZero \/ r.num = 0 \/ (f.neg <=> r.num < 0)
        gap   == IF ~same THEN BigAdd(fmag, rmag)
                 ELSE IF BigLess(fmag, rmag) THEN BigSub(rmag, fmag)
                 ELSE BigSub(fmag, rmag)
    IN  ~BigLess(bound, gap)

\* C26: _calculate_linear_trend returns 0 for fewer than 2 values, and for
\* at least 2 values exactly b for the series a + b*i and exactly 0 for a
\* constant series.
C26_ExactSlope ==
    Returned_("_calculate_linear_trend") =>
        /\ Len(call.y) < 2 => result = Returned(FloatZero)
        /\ (Len(call.y) >= 2 /\ IsConstant(call.y)) =>
               result = Returned(FloatZero)
        /\ IsRamp(call.y) =>
               result = Returned(FloatReading(call.y[2] - call.y[1]))

\* C26 as amended: 0 for fewer than 2 values; for at least 2 values the
\* least-squares slope up to the rounding of the sums (here within
\* 1e-12 V per sample), and exactly b, or 0, for a ramp or a constant
\* series of whole numbers.
C26_SlopeUpToRounding ==
    Returned_("_calculate_linear_trend") =>
        /\ Len(call.y) < 2 => result = Returned(FloatZero)
        /\ Len(call.y) >= 2 =>
               SlopeNear(result.value,
                         _calculate_linear_trend(call.x, call.y))
        /\ (Len(call.y) >= 2 /\ IsConstant(call.y) /\ WholeVolts(call.y)) =>
               result = Returned(FloatZero)
        /\ (IsRamp(call.y) /\ WholeVolts(call.y)) =>
               result = Returned(FloatReading(call.y[2] - call.y[1]))

\* A constant series of a fractional value whose slope is not 0.
C26_Witness ==
    /\ Returned_("_calculate_linear_trend")
    /\ Len(call.y) >= 2
    /\ IsConstant(call.y)
    /\ result # Returned(FloatZero)
    /\ SlopeNear(result.value, Rat(0, 1))

\* MR_i = |x_i - x_{i-1}| of the series of the call.
MovingRanges ==
    [i \in 1..(Len(call.sensor_readings) - 1) |->
        Abs(call.sensor_readings[i + 1] - call.sensor_readings[i])]

\* C27: with UCL = 1.693 * mean(MR) and LCL = max(0, 0.853 * mean(MR)),
\* range_alarm holds exactly when some MR_i is > UCL or < LCL; a series
\* whose moving ranges are all equal does not raise it.
C27_RangeAlarmByLimits ==
    DetectFull =>
        LET mr    == MovingRanges
            count == Len(mr)
            total == np_sum(mr)
        IN  /\ result.individual_indicators.range_alarm
                   <=> \E i \in 1..count :
                           \/ 1000 * count * mr[i] > 1693 * total
                           \/ 1000 * count * mr[i] < Max(0, 853 * total)
            /\ (\A i, j \in 1..count : mr[i] = mr[j]) =>
                   ~result.individual_indicators.range_alarm

\* A perfect ramp: no range alarm.
C27_Witness ==
    /\ DetectFull
    /\ IsRamp(call.sensor_readings)
    /\ ~result.individual_indicators.range_alarm
    /\ result.moving_range_stats.out_of_control_points = {}

\* Number of true indicators of a full detector result.
TrueIndicators ==
    Cardinality({k \in DOMAIN result.individual_indicators :
                     result.individual_indicators[k]})

\* C28: the recommendation agrees with the indicators: 'monitor' exactly when
\* at most one indicator is true, 'increase_monitoring' exactly when two are,
\* 'immediate_calibration' (the only action of urgency 'high') or
\* 'schedule_calibration' only when at least three are; next_check_hours is
\* 24, 4, 1 or 8.
C28_RecommendationByIndicators ==
    DetectFull =>
        LET rec == result.recommendation
            k   == TrueIndicators
        IN  /\ rec.action = "monitor" <=> k <= 1
            /\ rec.action = "increase_monitoring" <=> k = 2
            /\ rec.action \in {"immediate_calibration", "schedule_calibration"}
                   => k >= 3
            /\ rec.urgency = "high" <=> rec.action = "immediate_calibration"
            /\ rec.next_check_hours \in {24, 4, 1, 8}

\* Two indicators of four: increased monitoring.
C28_Witness ==
    /\ DetectFull
    /\ TrueIndicators = 2
    /\ result.recommendation.action = "increase_monitoring"

\* v lies between a and b, the ends included, in either order.
Between(v, a, b) == (a <= v /\ v <= b) \/ (b <= v /\ v <= a)

\* C29: in a filtering pass over a series of at least 3 samples, at every
\* step the error covariance is strictly positive, the gain lies strictly
\* between 0 and 1, and the new estimate lies between the previous estimate
\* and the current observation (ends included); the first output equals
\* the first sample and every output lies within [min(series), max(series)].
C29_FilterInvariants ==
    (/\ Returned_("kalman_filter_enhancement")
     /\ Len(call.measurements) >= 3) =>
        LET z == call.measurements
            n == Len(z)
        IN  /\ Len(result.steps) = n
            /\ \A i \in 1..n :
                   LET s == result.steps[i]
                   IN  /\ s.p_pred > 0
                       /\ s.p_est > 0
                       /\ 0 < s.kalman_gain
                       /\ s.kalman_gain < GainScale
                       /\ s.x_pred = (IF i = 1 THEN z[1]
                                      ELSE result.steps[i - 1].x_est)
                       /\ Between(s.x_est, s.x_pred, z[i])
                       /\ result.value[i] = s.x_est
            /\ result.value[1] = z[1]
            /\ \A i \in 1..n :
                   /\ \E j \in 1..n : z[j] <= result.value[i]
                   /\ \E j \in 1..n : result.value[i] <= z[j]

\* A pass in which an estimate moves strictly between the previous estimate
\* and the observation.
C29_Witness ==
    /\ Returned_("kalman_filter_enhancement")
    /\ Len(call.measurements) >= 3
    /\ result.kind = "return"
    /\ \E i \in 2..Len(call.measurements) :
           LET s == result.steps[i]
           IN  /\ s.x_pred < s.x_est
               /\ s.x_est < call.measurements[i]

\* The history of the call with every timestamp replaced by another value.
Retimed ==
    List([i \in 1..HistoryLen |->
             [call.sensor_history.items[i] EXCEPT
                  !.timestamp = BigFromNat(2 * HistoryLen - i)]])

\* The fitted trend [neg, num, den] is > 0.
AboveZero(trend) == ~trend.neg /\ trend.num # BigFromNat(0)

\* Some metric of a full prediction has a fitted trend > 0 and a last value
\* strictly below its threshold.
SomeMetricDue ==
    \/ /\ AboveZero(result.performance_trends.drift_trend)
       /\ BigLess(result.current_performance.drift_rate, drift_threshold)
    \/ /\ AboveZero(result.performance_trends.noise_trend)
       /\ BigLess(result.current_performance.noise_level, noise_threshold)

\* C30: a full prediction has urgency 'critical' or 'high' only when some
\* metric has a fitted trend > 0 and a last value strictly below its
\* threshold; when the last drift rate is >= 0.05 and the last noise level
\* is >= 0.01, or when both trends are <= 0, next_maintenance_days is 90 and
\* the urgency is 'medium'; and the result is the same for any usage_data
\* and any timestamp values.
C30_UrgencyNeedsDueMetric ==
    ForecastFull =>
        LET dt == result.performance_trends.drift_trend
            nt == result.performance_trends.noise_trend
            cd == result.current_performance.drift_rate
            cn == result.current_performance.noise_level
        IN  /\ result.urgency \in {"critical", "high"} => SomeMetricDue
            /\ (\/ ~BigLess(cd, drift_threshold)
                      /\ ~BigLess(cn, noise_threshold)
                \/ ~AboveZero(dt) /\ ~AboveZero(nt)) =>
                   /\ result.next_maintenance_days = 90
                   /\ result.urgency = "medium"
            /\ \A u \in UsageData \ {call.usage_data} :
                   predictive_maintenance_analysis(Retimed, u) = result

\* A full prediction with both last values at or above their thresholds and
\* a rising drift: 90 days, 'medium'.
C30_Witness ==
    /\ ForecastFull
    /\ AboveZero(result.performance_trends.drift_trend)
    /\ ~BigLess(result.current_performance.drift_rate, drift_threshold)
    /\ ~BigLess(result.current_performance.noise_level, noise_threshold)
    /\ result.next_maintenance_days = 90
    /\ result.urgency = "medium"
    /\ Retimed # call.sensor_history

====
